---- MODULE Spec2Model ----
(***************************************************************************)
(* Mark state engine and reconciliation protocol of hw-mockup.             *)
(*                                                                         *)
(*   hw_server.py   a node ("cabinet"): MarksState and its HTTP handlers   *)
(*   client_app.py  the orchestrator: CABINETS, DESIRED and its handlers   *)
(*   keycar_client  the client SDK: HttpTransportClient                    *)
(*   core.py        sanitize_plate and LockerAssigner                      *)
(*                                                                         *)
(* Specifications                                                          *)
(*   SpecNode  one node, its five handlers run one request at a time       *)
(*   SpecConc  one node, replace_all and to_dict interleaved by statement  *)
(*   Spec      the orchestrator with two nodes, one request at a time      *)
(*   SpecPush  the orchestrator's api_mark handled by concurrent threads   *)
(*   SpecReg   the registry of the orchestrator and its topology file      *)
(*   SpecLoad  the registry loaded from a topology file of any content     *)
(*   SpecKeys  the keys of the desired map of one registered cabinet       *)
(*   SpecDraw  the board a browser draws from a node's state report        *)
(*   SpecSdk   one HttpTransportClient._request call of the client SDK     *)
(*   SpecCore  one LockerAssigner and the plates given to it               *)
(***************************************************************************)
EXTENDS Integers, Sequences, FiniteSets, TLC

VARIABLES
    now,        \* int(time.time()) of the clock every process reads
    nodes,      \* url -> STATE of the hw_server listening there
    resp,       \* the last response a node sent to a direct client
    job,        \* SpecConc: the node thread that is inside api_marks
    CABINETS,   \* orchestrator registry: dict id -> {url, row_len, col_len, alias}
    DESIRED,    \* orchestrator desired state: cabinet id -> dict of marks
    reply,      \* the last response the orchestrator sent to its client
    th,         \* SpecPush: orchestrator thread -> the api_mark call it is in
    lostPush,   \* history (SpecPush): the <<cabinet, key>> whose last update was pushed in vain
    topology,   \* the cabinets list of topology.json, <<>> while there is no file
    listing,    \* the last response of GET /api/cabinets
    board,      \* the segments the page of a node last drew
    call,       \* SpecSdk: the HttpTransportClient._request call in progress
    lockerMap,  \* SpecCore: LockerAssigner._map, dict plate -> index
    ret         \* SpecCore: what the last call of a LockerAssigner method returned

vars == <<now, nodes, resp, job, CABINETS, DESIRED, reply, th, lostPush, topology, listing, board,
          call, lockerMap, ret>>

-----------------------------------------------------------------------------
(* Bounds of the model *)

MaxTime == 1

MaxBatch == 2

-----------------------------------------------------------------------------
(* JSON values of a request payload *)

JNull == [k |-> "null", i |-> 0, s |-> ""]

JAbsent == [k |-> "absent", i |-> 0, s |-> ""]

JInt(n) == [k |-> "int", i |-> n, s |-> ""]

JStr(x) == [k |-> "str", i |-> 0, s |-> x]

JBool(b) == [k |-> "bool", i |-> (IF b THEN 1 ELSE 0), s |-> ""]

\* payload.get(name): an absent key reads as None
Get(v) == IF v.k = "absent" THEN JNull ELSE v

\* payload.get(name, True)
GetOrTrue(v) == IF v.k = "absent" THEN JBool(TRUE) ELSE v

\* bool(v)
PyBool(v) ==
    CASE v.k = "bool" -> v.i = 1
      [] v.k = "int"  -> v.i # 0
      [] v.k = "str"  -> v.s # ""
      [] OTHER        -> FALSE

\* the strings of the model that str.strip() changes
StripTable ==
    (" default " :> "default") @@ (" m1 " :> "m1") @@ ("  " :> "") @@ (" A " :> "A") @@
    (" u3 " :> "u3")

Strip(s) == IF s \in DOMAIN StripTable THEN StripTable[s] ELSE s

\* the strings of the model that str.lower() changes
LowerTable == ("#0000FF" :> "#0000ff") @@ ("RED" :> "red") @@ ("#FF0000" :> "#ff0000")

Lower(s) == IF s \in DOMAIN LowerTable THEN LowerTable[s] ELSE s

\* str(v)
PyStr(v) ==
    CASE v.k = "str"  -> v.s
      [] v.k = "int"  -> ToString(v.i)
      [] v.k = "bool" -> (IF v.i = 1 THEN "True" ELSE "False")
      [] OTHER        -> "None"

\* str(v or "")
StrOrEmpty(v) == IF PyBool(v) THEN PyStr(v) ELSE ""

\* the strings of the model that int() parses
IntLiterals == ("0" :> 0) @@ ("1" :> 1) @@ ("3" :> 3)

\* int(v) does not raise
IntOk(v) == v.k \in {"int", "bool"} \/ (v.k = "str" /\ Strip(v.s) \in DOMAIN IntLiterals)

\* int(v)
IntVal(v) == IF v.k = "str" THEN IntLiterals[Strip(v.s)] ELSE v.i

-----------------------------------------------------------------------------
(* hw_server.py: configuration and colors *)

Urls == {"u1", "u2"}

\* CABINET_ID, ROW_LEN, COL_LEN of the process listening on each url
NodeCfg ==
    ("u1" :> [cabinet_id |-> "A", row_len |-> 3, col_len |-> 3]) @@
    ("u2" :> [cabinet_id |-> "B", row_len |-> 3, col_len |-> 3])

CABINET_ID(u) == NodeCfg[u].cabinet_id

ROW_LEN(u) == NodeCfg[u].row_len

COL_LEN(u) == NodeCfg[u].col_len

None == "<None>"

COLOR_NAMES == ("red" :> "#ff0000") @@ ("blue" :> "#0000ff") @@ ("green" :> "#00ff00")

\* the strings of the model that HEX_RE matches
HexStrings == {"#ff0000", "#0000ff", "#00ff00", "#0000FF", "#FF0000"}

HEX_RE(s) == s \in HexStrings

\* normalize_color(value) for a value that is a str
NormalizeStr(s) ==
    LET v == Strip(s) IN
    IF HEX_RE(v) THEN Lower(v)
    ELSE IF Lower(v) \in DOMAIN COLOR_NAMES THEN COLOR_NAMES[Lower(v)]
    ELSE None

normalize_color(value) == IF value.k # "str" THEN None ELSE NormalizeStr(value.s)

InRangeLe(x, len) == 0 <= x /\ x <= len

InRange(x, len) == 0 <= x /\ x < len

\* f"r{row}c{col}"
DerivedKey(row, col) == "r" \o ToString(row) \o "c" \o ToString(col)

ResolveKeyDerivedOnly(idv, row, col) == DerivedKey(row, col)

\* str(payload.get("id") or "").strip() or f"r{row}c{col}"
ResolveKey(idv, row, col) ==
    LET e == Strip(StrOrEmpty(idv)) IN IF e # "" THEN e ELSE DerivedKey(row, col)

-----------------------------------------------------------------------------
(* A Python dict kept as the sequence of its items in insertion order *)

Keys(d) == {d[i].id : i \in 1..Len(d)}

IndexOf(d, key) == CHOOSE i \in 1..Len(d) : d[i].id = key

Lookup(d, key) == d[IndexOf(d, key)]

DictSetAppend(d, item) == Append(d, item)

DictSetMoveToEnd(d, item) == Append(SelectSeq(d, LAMBDA e : e.id # item.id), item)

\* d[key] = value: an existing key keeps its position
DictSet(d, item) ==
    IF item.id \in Keys(d)
    THEN [i \in 1..Len(d) |-> IF d[i].id = item.id THEN item ELSE d[i]]
    ELSE Append(d, item)

\* d.pop(key, None)
DictPop(d, key) == SelectSeq(d, LAMBDA e : e.id # key)

-----------------------------------------------------------------------------
(* hw_server.py: MarksState *)

Mark(mid, row, col, color, t) == [id |-> mid, row |-> row, col |-> col, color |-> color, ts |-> t]

EmptyState == [marks |-> <<>>, ts |-> 0]

set_mark(S, mid, row, col, color, t) ==
    [marks |-> DictSet(S.marks, Mark(mid, row, col, color, t)), ts |-> t]

del_mark_touch(S, mid, t) == [marks |-> DictPop(S.marks, mid), ts |-> t]

del_mark(S, mid, t) ==
    IF mid \in Keys(S.marks) THEN [marks |-> DictPop(S.marks, mid), ts |-> t] ELSE S

\* the bool del_mark returns: ok = self.marks.pop(mid, None) is not None
del_mark_ok(S, mid) == mid \in Keys(S.marks)

clear(S, t) == [marks |-> <<>>, ts |-> t]

\* one iteration of the loop of replace_all: the marks after item `it`
ReplaceItem(u, marks, it, t) ==
    IF ~(IntOk(Get(it.row)) /\ IntOk(Get(it.col))) THEN marks
    ELSE
      LET row   == IntVal(Get(it.row))
          col   == IntVal(Get(it.col))
          mid   == ResolveKey(Get(it.id), row, col)
          color == StrOrEmpty(Get(it.color))
      IN  IF ~(InRange(row, ROW_LEN(u)) /\ InRange(col, COL_LEN(u))) THEN marks
          ELSE IF NormalizeStr(color) = None THEN marks
          ELSE DictSet(marks, Mark(mid, row, col, NormalizeStr(color), t))

RECURSIVE ReplaceLoop(_, _, _, _)
ReplaceLoop(u, marks, items, t) ==
    IF items = <<>> THEN marks
    ELSE ReplaceLoop(u, ReplaceItem(u, marks, Head(items), t), Tail(items), t)

ReplaceAllExtend(u, S, items, t) ==
    [marks |-> S.marks \o ReplaceLoop(u, <<>>, items, t), ts |-> t]

replace_all(u, S, items, t) ==
    [marks |-> ReplaceLoop(u, <<>>, items, t), ts |-> t]

to_dict(u, S) ==
    [cabinet_id |-> CABINET_ID(u), row_len |-> ROW_LEN(u), col_len |-> COL_LEN(u),
     marks |-> S.marks, ts |-> S.ts]

-----------------------------------------------------------------------------
(* hw_server.py: the handlers, each as the pair of the new STATE and the    *)
(* response                                                                *)

NoBody == [cabinet_id |-> "", row_len |-> 0, col_len |-> 0, marks |-> <<>>, ts |-> 0]

Response(status, count, body) == [status |-> status, count |-> count, body |-> body]

Ok == Response(200, -1, NoBody)

Bad == Response(400, -1, NoBody)

NoResponse == Response(0, -1, NoBody)

Out(S, r) == [state |-> S, resp |-> r]

\* isinstance(on_raw, (bool, int)) and bool(on_raw)
CompatOn(v) == Get(v).k \in {"bool", "int"} /\ PyBool(Get(v))

api_led(u, S, p, t) ==
    LET color_hex == normalize_color(Get(p.color)) IN
    IF color_hex = None THEN Out(S, Bad)
    ELSE IF ~CompatOn(p.on) THEN Out(clear(S, t), Ok)
    ELSE Out(set_mark(S, "default", 0, 0, color_hex, t), Ok)

api_trace_clear(u, S, p, t) ==
    LET color_hex == normalize_color(Get(p.color)) IN
    IF ~CompatOn(p.on) THEN Out(clear(S, t), Ok)
    ELSE IF color_hex = None THEN Out(S, Bad)
    ELSE IF ~(IntOk(Get(p.row)) /\ IntOk(Get(p.col))) THEN Out(S, Bad)
    ELSE IF ~InRange(IntVal(Get(p.row)), ROW_LEN(u)) THEN Out(S, Bad)
    ELSE IF ~InRange(IntVal(Get(p.col)), COL_LEN(u)) THEN Out(S, Bad)
    ELSE Out(set_mark(S, "default", IntVal(Get(p.row)), IntVal(Get(p.col)), color_hex, t), Ok)

api_trace(u, S, p, t) ==
    LET color_hex == normalize_color(Get(p.color)) IN
    IF ~CompatOn(p.on) THEN Out(del_mark(S, "default", t), Ok)
    ELSE IF color_hex = None THEN Out(S, Bad)
    ELSE IF ~(IntOk(Get(p.row)) /\ IntOk(Get(p.col))) THEN Out(S, Bad)
    ELSE IF ~InRange(IntVal(Get(p.row)), ROW_LEN(u)) THEN Out(S, Bad)
    ELSE IF ~InRange(IntVal(Get(p.col)), COL_LEN(u)) THEN Out(S, Bad)
    ELSE Out(set_mark(S, "default", IntVal(Get(p.row)), IntVal(Get(p.col)), color_hex, t), Ok)

api_mark(u, S, p, t) ==
    LET on == PyBool(GetOrTrue(p.on)) IN
    IF ~(IntOk(Get(p.row)) /\ IntOk(Get(p.col)))
    THEN IF ~on
         THEN LET mid_only == Strip(StrOrEmpty(Get(p.id))) IN
              IF mid_only = "" THEN Out(S, Bad) ELSE Out(del_mark(S, mid_only, t), Ok)
         ELSE Out(S, Bad)
    ELSE
      LET row == IntVal(Get(p.row))
          col == IntVal(Get(p.col))
          mid == ResolveKey(Get(p.id), row, col)
          color == normalize_color(Get(p.color))
      IN  IF ~on THEN Out(del_mark(S, mid, t), Ok)
          ELSE IF ~InRange(row, ROW_LEN(u)) \/ ~InRange(col, COL_LEN(u)) THEN Out(S, Bad)
          ELSE IF color = None THEN Out(S, Bad)
          ELSE Out(set_mark(S, mid, row, col, color, t), Ok)

api_marks_replace_first(u, S, b, t) ==
    LET S2 == replace_all(u, S, b.items, t) IN
    IF ~b.list THEN Out(S2, Bad) ELSE Out(S2, Response(200, Len(S2.marks), NoBody))

api_marks_count_received(u, S, b, t) ==
    IF ~b.list THEN Out(S, Bad)
    ELSE Out(replace_all(u, S, b.items, t), Response(200, Len(b.items), NoBody))

\* `b` is payload.get("marks"): b.list says whether it is a list, b.items holds it
api_marks(u, S, b, t) ==
    IF ~b.list THEN Out(S, Bad)
    ELSE LET S2 == replace_all(u, S, b.items, t) IN
         Out(S2, Response(200, Len(S2.marks), NoBody))

api_state(u, S) == Out(S, Response(200, -1, to_dict(u, S)))

-----------------------------------------------------------------------------
(* The requests a direct client of a node sends *)

Item(idv, row, col, color) == [id |-> idv, row |-> row, col |-> col, color |-> color]

IdIn == {JNull, JStr(" default ")}

RowIn == {JInt(0), JInt(3), JNull}

ColIn == {JInt(0), JInt(1), JInt(-1)}

ColorIn == {JStr("red"), JStr("#0000FF"), JNull}

OnIn == {JBool(TRUE), JBool(FALSE), JAbsent}

LedIn == [color : ColorIn, on : OnIn]

TraceIn == [row : RowIn, col : ColIn, color : ColorIn, on : OnIn]

MarkIn == [id : IdIn, row : RowIn, col : ColIn, color : ColorIn, on : OnIn]

\* the entries a full-replace batch is made of
BatchItems ==
    { Item(JStr(" default "), JInt(0), JInt(0), JStr("red")),
      Item(JNull, JInt(0), JInt(1), JStr("#0000FF")),
      Item(JNull, JInt(0), JInt(1), JStr("red")),
      Item(JNull, JInt(3), JInt(0), JStr("red")),
      Item(JNull, JInt(0), JInt(0), JStr("nope")) }

SeqsUpTo(S, n) == UNION {[1..k -> S] : k \in 0..n}

BatchIn == {[list |-> TRUE, items |-> q] : q \in SeqsUpTo(BatchItems, MaxBatch)}
           \cup {[list |-> FALSE, items |-> <<>>]}

\* the node the single-node specifications run
TheNode == "u1"

-----------------------------------------------------------------------------
(* Initial state *)

IdleJob == [pc |-> "idle", items |-> <<>>, batch |-> <<>>, pre |-> <<>>]

IdleTh == [pc |-> "idle", cab |-> "", url |-> "", key |-> "", snap |-> <<>>]

OrchThreads == {1, 2}

NoReply == [status |-> 0]

NoListing == [status |-> 0, items |-> <<>>]

NoBoard == [at |-> -1, marks |-> <<>>, top |-> <<>>, left |-> <<>>]

IdleCall == [pc |-> "idle", retries |-> 0, attempts |-> 0, log |-> <<>>, result |-> ""]

\* a call of a method of LockerAssigner: the method, the raw plate it was
\* given, the plate it computed, whether it raised ValueError, and the values
\* it returned (idx is -1 where the method returns no index or returns None)
Return(op, raw, plate, raised, idx, flag) ==
    [op |-> op, raw |-> raw, plate |-> plate, raised |-> raised, idx |-> idx, flag |-> flag]

NoReturn == Return("", [str |-> FALSE, chars |-> <<>>], <<>>, FALSE, -1, FALSE)

\* both processes just started, no topology file on disk
Init ==
    /\ now = 0
    /\ nodes = [u \in Urls |-> EmptyState]
    /\ resp = NoResponse
    /\ job = IdleJob
    /\ CABINETS = <<>>
    /\ DESIRED = <<>>
    /\ reply = NoReply
    /\ th = [t \in OrchThreads |-> IdleTh]
    /\ lostPush = {}
    /\ topology = <<>>
    /\ listing = NoListing
    /\ board = NoBoard
    /\ call = IdleCall
    /\ lockerMap = <<>>
    /\ ret = NoReturn

orchVars == <<CABINETS, DESIRED, reply, th, lostPush, topology, listing>>

libVars == <<call, lockerMap, ret>>

\* the clock advances
Tick ==
    /\ now < MaxTime
    /\ now' = now + 1
    /\ UNCHANGED <<nodes, resp, job, orchVars, board, libVars>>

-----------------------------------------------------------------------------
(* SpecNode: a node serving one request at a time *)

Serve(u, out) ==
    /\ nodes' = [nodes EXCEPT ![u] = out.state]
    /\ resp' = out.resp
    /\ UNCHANGED <<now, job, orchVars, board, libVars>>

NodeLed(u, p) == Serve(u, api_led(u, nodes[u], p, now))

NodeTrace(u, p) == Serve(u, api_trace(u, nodes[u], p, now))

NodeMark(u, p) == Serve(u, api_mark(u, nodes[u], p, now))

NodeMarks(u, b) == Serve(u, api_marks(u, nodes[u], b, now))

NodeState(u) == Serve(u, api_state(u, nodes[u]))

NextNode ==
    \/ Tick
    \/ \E p \in LedIn : NodeLed(TheNode, p)
    \/ \E p \in TraceIn : NodeTrace(TheNode, p)
    \/ \E p \in MarkIn : NodeMark(TheNode, p)
    \/ \E b \in BatchIn : NodeMarks(TheNode, b)
    \/ NodeState(TheNode)

SpecNode == Init /\ [][NextNode]_vars

-----------------------------------------------------------------------------
(* SpecConc: one node whose requests overlap (Flask serves each request in  *)
(* its own thread and MarksState holds no lock).  One thread is inside      *)
(* api_marks and runs replace_all statement by statement: marks.clear(),    *)
(* one loop iteration per item, self.ts = ..., and then api_marks reads     *)
(* len(STATE.marks).  Meanwhile other threads serve /api/state and          *)
(* /api/mark, each taken as one step.                                       *)

ConcItems ==
    { Item(JNull, JInt(0), JInt(0), JStr("red")),
      Item(JNull, JInt(0), JInt(1), JStr("#0000FF")),
      Item(JNull, JInt(3), JInt(0), JStr("red")) }

ConcBatchIn == SeqsUpTo(ConcItems, MaxBatch)

ConcMarkIn == [id : {JNull}, row : {JInt(0)}, col : {JInt(0), JInt(1)},
               color : {JStr("red")}, on : {JBool(TRUE), JBool(FALSE)}]

\* a thread enters api_marks with a list and is about to run replace_all
ConcBegin(items) ==
    /\ job.pc = "idle"
    /\ job' = [pc |-> "clear", items |-> items, batch |-> items, pre |-> nodes[TheNode].marks]
    /\ UNCHANGED <<now, nodes, resp, orchVars, board, libVars>>

\* self.marks.clear()
ConcClear ==
    /\ job.pc = "clear"
    /\ nodes' = [nodes EXCEPT ![TheNode].marks = <<>>]
    /\ job' = [job EXCEPT !.pc = "loop"]
    /\ UNCHANGED <<now, resp, orchVars, board, libVars>>

\* one iteration of `for it in items`
ConcItem ==
    /\ job.pc = "loop"
    /\ job.items # <<>>
    /\ nodes' = [nodes EXCEPT ![TheNode].marks =
                    ReplaceItem(TheNode, nodes[TheNode].marks, Head(job.items), now)]
    /\ job' = [job EXCEPT !.items = Tail(job.items)]
    /\ UNCHANGED <<now, resp, orchVars, board, libVars>>

\* self.ts = int(time.time())
ConcTs ==
    /\ job.pc = "loop"
    /\ job.items = <<>>
    /\ nodes' = [nodes EXCEPT ![TheNode].ts = now]
    /\ job' = [job EXCEPT !.pc = "count"]
    /\ UNCHANGED <<now, resp, orchVars, board, libVars>>

\* return jsonify({"ok": True, "count": len(STATE.marks)})
ConcCount ==
    /\ job.pc = "count"
    /\ resp' = Response(200, Len(nodes[TheNode].marks), NoBody)
    /\ job' = IdleJob
    /\ UNCHANGED <<now, nodes, orchVars, board, libVars>>

\* another thread serves GET /api/state
ConcState ==
    /\ resp' = api_state(TheNode, nodes[TheNode]).resp
    /\ UNCHANGED <<now, nodes, job, orchVars, board, libVars>>

\* another thread serves POST /api/mark
ConcMark(p) ==
    /\ LET o == api_mark(TheNode, nodes[TheNode], p, now) IN
         /\ nodes' = [nodes EXCEPT ![TheNode] = o.state]
         /\ resp' = o.resp
    /\ UNCHANGED <<now, job, orchVars, board, libVars>>

NextConc ==
    \/ \E items \in ConcBatchIn : ConcBegin(items)
    \/ ConcClear
    \/ ConcItem
    \/ ConcTs
    \/ ConcCount
    \/ ConcState
    \/ \E p \in ConcMarkIn : ConcMark(p)

SpecConc == Init /\ [][NextConc]_vars

-----------------------------------------------------------------------------
(* client_app.py: the orchestrator *)

Meta(cid, url, rlen, clen, alias) ==
    [id |-> cid, url |-> url, row_len |-> rlen, col_len |-> clen, alias |-> alias]

\* the strings of the model that str.rstrip("/") changes
RStripSlash(s) == IF s = "u1/" THEN "u1" ELSE s

\* DESIRED.setdefault(cabinet, {"marks": {}})
SetDefault(D, cabinet) == IF cabinet \in DOMAIN D THEN D ELSE D @@ (cabinet :> <<>>)

Rejected(status, D) ==
    [status |-> status, desired |-> D, cab |-> "", url |-> "", key |-> ""]

Accepted(D, cabinet, url, key) ==
    [status |-> 0, desired |-> D, cab |-> cabinet, url |-> url, key |-> key]

PushUrlFirst(C, cabinet) == C[1].url

\* meta["url"], the node the push of `cabinet` is sent to
PushUrl(C, cabinet) == Lookup(C, cabinet).url

OrchUpdateTracksFirst(C, D, p) ==
    LET cabinet == Strip(StrOrEmpty(Get(p.cabinet)))
        D1      == SetDefault(D, cabinet)
        on      == PyBool(GetOrTrue(p.on))
    IN  IF cabinet = "" THEN Rejected(400, D)
        ELSE IF cabinet \notin Keys(C) THEN Rejected(404, D1)
        ELSE IF ~(IntOk(Get(p.row)) /\ IntOk(Get(p.col))) THEN Rejected(400, D1)
        ELSE
          LET row == IntVal(Get(p.row))
              col == IntVal(Get(p.col))
              key == ResolveKey(Get(p.id), row, col)
              color == Strip(StrOrEmpty(Get(p.color)))
          IN  IF ~on
              THEN Accepted([D1 EXCEPT ![cabinet] = DictPop(@, key)], cabinet,
                            PushUrl(C, cabinet), key)
              ELSE IF color = "" THEN Rejected(400, D1)
              ELSE Accepted([D1 EXCEPT ![cabinet] = DictSet(@, Mark(key, row, col, color, 0))],
                            cabinet, PushUrl(C, cabinet), key)

\* api_mark up to the update of DESIRED (lines 418-439): the response status
\* when the handler returns there (0 when it goes on to the push), the new
\* DESIRED, and the cabinet, its url and the key the handler holds
OrchUpdate(C, D, p) ==
    LET cabinet == Strip(StrOrEmpty(Get(p.cabinet))) IN
    IF cabinet = "" THEN Rejected(400, D)
    ELSE IF cabinet \notin Keys(C) THEN Rejected(404, D)
    ELSE
      LET url  == PushUrl(C, cabinet)
          on   == PyBool(GetOrTrue(p.on))
          D1   == SetDefault(D, cabinet)
      IN  IF ~(IntOk(Get(p.row)) /\ IntOk(Get(p.col))) THEN Rejected(400, D1)
          ELSE
            LET row == IntVal(Get(p.row))
                col == IntVal(Get(p.col))
                key == ResolveKey(Get(p.id), row, col)
                color == Strip(StrOrEmpty(Get(p.color)))
            IN  IF ~on
                THEN Accepted([D1 EXCEPT ![cabinet] = DictPop(@, key)], cabinet, url, key)
                ELSE IF color = "" THEN Rejected(400, D1)
                ELSE Accepted([D1 EXCEPT ![cabinet] = DictSet(@, Mark(key, row, col, color, 0))],
                              cabinet, url, key)

\* marks = [ {"id": k, **v} for k, v in cab["marks"].items() ], as the JSON
\* list the node receives
Snapshot(marks) ==
    [i \in 1..Len(marks) |->
        Item(JStr(marks[i].id), JInt(marks[i].row), JInt(marks[i].col), JStr(marks[i].color))]

\* the node at `url` serves the POST /api/marks of a push
PushServed(url, S, snap, t) == api_marks(url, S, [list |-> TRUE, items |-> snap], t)

\* the status api_mark returns for the outcome of urlopen: a response of the
\* node, a connection that fails (URLError), a response that never arrives
\* (the timeout raised while reading)
PushStatus(net, nodeStatus) ==
    CASE net = "lost"    -> 502
      [] net = "noreply" -> 500
      [] OTHER -> IF 200 <= nodeStatus /\ nodeStatus < 300 THEN 200 ELSE 502

\* what answers GET url/api/state besides the nodes of the model: a second
\* node started with CABINET_ID=A, a node started with an empty CABINET_ID,
\* and a server that reports row_len 0
Foreign ==
    ("u3" :> [cabinet_id |-> "A", row_len |-> 2, col_len |-> 4, marks |-> <<>>, ts |-> 0]) @@
    ("u4" :> [cabinet_id |-> "",  row_len |-> 3, col_len |-> 3, marks |-> <<>>, ts |-> 0]) @@
    ("u5" :> [cabinet_id |-> "C", row_len |-> 0, col_len |-> 3, marks |-> <<>>, ts |-> 0])

Answers(url) == url \in Urls \cup DOMAIN Foreign

\* the probe of url + "/api/state" answers with the node's to_dict, or fails
\* when nothing listens there
Probe(url) ==
    IF url \in Urls THEN to_dict(url, nodes[url])
    ELSE IF url \in DOMAIN Foreign THEN Foreign[url]
    ELSE NoBody

\* the order of Python's str comparison on the identifiers of the model
IdRank == ("A" :> 1) @@ ("B" :> 2) @@ ("C" :> 3)

\* one element of the "cabinets" list of topology.json: a JSON object with
\* the five keys (JAbsent for a key it lacks), or a value that is no object
FileRecord(idv, url, rlen, clen, alias) ==
    [dict |-> TRUE, id |-> idv, url |-> url, row_len |-> rlen, col_len |-> clen, alias |-> alias]

NotADict ==
    [dict |-> FALSE, id |-> JAbsent, url |-> JAbsent, row_len |-> JAbsent, col_len |-> JAbsent,
     alias |-> JAbsent]

\* save_topology: the "cabinets" list written to topology.json
save_topology(C) ==
    LET sorted == SortSeq(C, LAMBDA x, y : IdRank[x.id] < IdRank[y.id]) IN
    [i \in 1..Len(sorted) |->
        FileRecord(JStr(sorted[i].id), JStr(sorted[i].url), JInt(sorted[i].row_len),
                   JInt(sorted[i].col_len), JStr(sorted[i].alias))]

\* it.get(name, 0)
GetOrZero(v) == IF v.k = "absent" THEN JInt(0) ELSE v

\* the body of the loop of load_topology (lines 65-76): mem after the item
LoadItem(mem, it) ==
    IF ~it.dict THEN mem
    ELSE LET cid   == Strip(StrOrEmpty(Get(it.id)))
             url   == Strip(StrOrEmpty(Get(it.url)))
             ok    == IntOk(GetOrZero(it.row_len)) /\ IntOk(GetOrZero(it.col_len))
             rlen  == IF ok THEN IntVal(GetOrZero(it.row_len)) ELSE 0
             clen  == IF ok THEN IntVal(GetOrZero(it.col_len)) ELSE 0
             alias == Strip(StrOrEmpty(Get(it.alias)))
         IN  IF cid # "" /\ url # "" /\ rlen > 0 /\ clen > 0 /\ cid \notin Keys(mem)
             THEN Append(mem, Meta(cid, url, rlen, clen, alias))
             ELSE mem

RECURSIVE LoadLoop(_, _)
LoadLoop(mem, items) ==
    IF items = <<>> THEN mem ELSE LoadLoop(LoadItem(mem, Head(items)), Tail(items))

load_topology_abort(T) ==
    IF \E i \in 1..Len(T) : LoadItem(<<>>, T[i]) = <<>> THEN <<>> ELSE LoadLoop(<<>>, T)

\* load_topology: CABINETS as read from the "cabinets" list of topology.json
load_topology(T) == LoadLoop(<<>>, T)

api_cabinets_add_unchecked(C, T, p) ==
    LET alias == Strip(StrOrEmpty(IF PyBool(Get(p.alias)) THEN Get(p.alias) ELSE Get(p.id)))
        base  == RStripSlash(Strip(StrOrEmpty(Get(p.url))))
        data  == Probe(base)
        C2    == DictSet(C, Meta(Strip(data.cabinet_id), base, data.row_len, data.col_len, alias))
    IN  IF ~Answers(base) THEN [status |-> 502, cabinets |-> C, topology |-> T]
        ELSE [status |-> IF Strip(data.cabinet_id) = "" \/ data.row_len <= 0 \/ data.col_len <= 0
                         THEN 400 ELSE 200,
              cabinets |-> C2, topology |-> save_topology(C2)]

api_cabinets_add_caller_id(C, T, p) ==
    LET alias == Strip(StrOrEmpty(IF PyBool(Get(p.alias)) THEN Get(p.alias) ELSE Get(p.id)))
        url   == Strip(StrOrEmpty(Get(p.url)))
        base  == RStripSlash(url)
        data  == Probe(base)
        cid   == IF PyBool(Get(p.id)) THEN Strip(StrOrEmpty(Get(p.id))) ELSE Strip(data.cabinet_id)
    IN  IF url = "" THEN [status |-> 400, cabinets |-> C, topology |-> T]
        ELSE IF ~Answers(base) THEN [status |-> 502, cabinets |-> C, topology |-> T]
        ELSE IF Strip(data.cabinet_id) = "" \/ data.row_len <= 0 \/ data.col_len <= 0
             THEN [status |-> 400, cabinets |-> C, topology |-> T]
        ELSE LET C2 == DictSet(C, Meta(cid, base, data.row_len, data.col_len, alias))
             IN  [status |-> 200, cabinets |-> C2, topology |-> save_topology(C2)]

\* api_cabinets_add over registry C and topology file T
api_cabinets_add(C, T, p) ==
    LET alias == Strip(StrOrEmpty(IF PyBool(Get(p.alias)) THEN Get(p.alias) ELSE Get(p.id)))
        url   == Strip(StrOrEmpty(Get(p.url)))
        base  == RStripSlash(url)
        data  == Probe(base)
    IN  IF url = "" THEN [status |-> 400, cabinets |-> C, topology |-> T]
        ELSE IF ~Answers(base) THEN [status |-> 502, cabinets |-> C, topology |-> T]
        ELSE IF Strip(data.cabinet_id) = "" \/ data.row_len <= 0 \/ data.col_len <= 0
             THEN [status |-> 400, cabinets |-> C, topology |-> T]
        ELSE LET C2 == DictSet(C, Meta(Strip(data.cabinet_id), base, data.row_len,
                                       data.col_len, alias))
             IN  [status |-> 200, cabinets |-> C2, topology |-> save_topology(C2)]

api_cabinets_delete_all(C, T, cid) ==
    IF Strip(cid) \in Keys(C)
    THEN [status |-> 200, cabinets |-> <<>>, topology |-> <<>>]
    ELSE [status |-> 404, cabinets |-> C, topology |-> T]

\* api_cabinets_delete over registry C and topology file T
api_cabinets_delete(C, T, cid) ==
    IF Strip(cid) \in Keys(C)
    THEN [status |-> 200, cabinets |-> DictPop(C, Strip(cid)),
          topology |-> save_topology(DictPop(C, Strip(cid)))]
    ELSE [status |-> 404, cabinets |-> C, topology |-> T]

\* api_cabinets_list: the "items" of the response
api_cabinets_list(C) == C

-----------------------------------------------------------------------------
(* The requests a client of the orchestrator sends *)

Intent(cabinet, idv, row, col, color, on) ==
    [cabinet |-> cabinet, id |-> idv, row |-> row, col |-> col, color |-> color, on |-> on]

\* the shapes of an apply-mark intent, each sent with on true or false
IntentShapes ==
    { [id |-> JNull,      row |-> JInt(0), col |-> JInt(0), color |-> JStr("red")],
      [id |-> JNull,      row |-> JInt(0), col |-> JInt(0), color |-> JStr("#0000FF")],
      [id |-> JStr("m1"), row |-> JInt(0), col |-> JInt(0), color |-> JStr("#0000FF")],
      [id |-> JNull,      row |-> JInt(3), col |-> JInt(0), color |-> JStr("red")],
      [id |-> JNull,      row |-> JNull,   col |-> JInt(0), color |-> JStr("red")],
      [id |-> JNull,      row |-> JInt(0), col |-> JInt(0), color |-> JNull] }

\* the shapes sent to the second cabinet
OtherShapes ==
    { [id |-> JNull,      row |-> JInt(0), col |-> JInt(0), color |-> JStr("red")] }

IntentsTo(cabinets, shapes) ==
    { Intent(c, x.id, x.row, x.col, x.color, on) :
        c \in cabinets, x \in shapes, on \in {JBool(TRUE), JBool(FALSE)} }

IntentIn == IntentsTo({JStr("A")}, IntentShapes) \cup IntentsTo({JStr("B"), JNull}, OtherShapes)

RegisterIn == [alias : {JNull}, id : {JNull}, url : {JStr("u1"), JStr("u2"), JStr("u9"), JNull}]

NetIn == {"ok", "lost", "noreply"}

-----------------------------------------------------------------------------
(* Spec: the orchestrator and two nodes, one request at a time *)

OrchRegister(p) ==
    LET r == api_cabinets_add(CABINETS, topology, p) IN
    /\ CABINETS' = r.cabinets
    /\ topology' = r.topology
    /\ reply' = [status |-> r.status]
    /\ UNCHANGED <<now, nodes, resp, job, DESIRED, th, lostPush, listing, board, libVars>>

OrchDeregister(cid) ==
    LET r == api_cabinets_delete(CABINETS, topology, cid) IN
    /\ CABINETS' = r.cabinets
    /\ topology' = r.topology
    /\ reply' = [status |-> r.status]
    /\ UNCHANGED <<now, nodes, resp, job, DESIRED, th, lostPush, listing, board, libVars>>

\* the "count" of a response body that has no such key
NoCount == -1

orch_api_mark_push_always(C, D, N, p, net, t) ==
    LET r   == OrchUpdate(C, D, p)
        cab == Strip(StrOrEmpty(Get(p.cabinet)))
        to  == IF r.status = 0 THEN r.url ELSE PushUrl(C, cab)
        o   == PushServed(to, N[to], Snapshot(r.desired[cab]), t)
    IN  IF r.status # 0 /\ (cab \notin Keys(C) \/ cab \notin DOMAIN r.desired)
        THEN [status |-> r.status, desired |-> r.desired, nodes |-> N, sent |-> "",
              count |-> NoCount]
        ELSE [status  |-> IF r.status # 0 THEN r.status ELSE PushStatus(net, o.resp.status),
              desired |-> r.desired,
              nodes   |-> IF net = "lost" THEN N ELSE [N EXCEPT ![to] = o.state],
              sent    |-> to,
              count   |-> NoCount]

\* api_mark as a whole (lines 412-460) over registry C, desired state D and
\* nodes N: the update of DESIRED, the snapshot, the push to `sent` and what
\* the network does to it; `count` is the "count" of the response body, which
\* is {"ok": True} on success and {"error": ...} otherwise
orch_api_mark(C, D, N, p, net, t) ==
    LET r == OrchUpdate(C, D, p) IN
    IF r.status # 0
    THEN [status |-> r.status, desired |-> r.desired, nodes |-> N, sent |-> "",
          count |-> NoCount]
    ELSE LET o == PushServed(r.url, N[r.url], Snapshot(r.desired[r.cab]), t) IN
         [status  |-> PushStatus(net, o.resp.status),
          desired |-> r.desired,
          nodes   |-> IF net = "lost" THEN N ELSE [N EXCEPT ![r.url] = o.state],
          sent    |-> r.url,
          count   |-> NoCount]

OrchMark(p, net) ==
    LET r == orch_api_mark(CABINETS, DESIRED, nodes, p, net, now) IN
    /\ DESIRED' = r.desired
    /\ nodes' = r.nodes
    /\ reply' = [status |-> r.status]
    /\ UNCHANGED <<now, resp, job, CABINETS, th, lostPush, topology, listing, board, libVars>>

Next ==
    \/ \E p \in RegisterIn : OrchRegister(p)
    \/ \E c \in {"A", "B"} : OrchDeregister(c)
    \/ \E p \in IntentIn, net \in NetIn : OrchMark(p, net)

Spec == Init /\ [][Next]_vars

-----------------------------------------------------------------------------
(* SpecPush: api_mark of the orchestrator served by concurrent threads      *)
(* (Flask serves each request in its own thread; DESIRED holds no lock and   *)
(* nothing orders the pushes).  Cabinet A was loaded from topology.json.     *)
(* A thread updates DESIRED (lines 418-439), builds the list of marks (line  *)
(* 441), sends it, and returns when urlopen returns or raises.  The node     *)
(* serves each push in one step.                                            *)

PushShapes ==
    { [id |-> JNull,      row |-> JInt(0), col |-> JInt(0), color |-> JStr("red")],
      [id |-> JStr("m1"), row |-> JInt(0), col |-> JInt(0), color |-> JStr("#0000FF")],
      [id |-> JNull,      row |-> JInt(3), col |-> JInt(0), color |-> JStr("red")] }

PushIn == IntentsTo({JStr("A")}, PushShapes)

InitPush ==
    /\ now = 0
    /\ nodes = [u \in Urls |-> EmptyState]
    /\ resp = NoResponse
    /\ job = IdleJob
    /\ CABINETS = <<Meta("A", "u1", 3, 3, "")>>
    /\ DESIRED = <<>>
    /\ reply = NoReply
    /\ th = [t \in OrchThreads |-> IdleTh]
    /\ lostPush = {}
    /\ topology = save_topology(CABINETS)
    /\ listing = NoListing
    /\ board = NoBoard
    /\ call = IdleCall
    /\ lockerMap = <<>>
    /\ ret = NoReturn

\* lines 418-439
PushAccept(t, p) ==
    LET r == OrchUpdate(CABINETS, DESIRED, p) IN
    /\ th[t].pc = "idle"
    /\ DESIRED' = r.desired
    /\ IF r.status # 0
       THEN /\ reply' = [status |-> r.status]
            /\ UNCHANGED <<th, lostPush>>
       ELSE /\ th' = [th EXCEPT ![t] = [pc |-> "snap", cab |-> r.cab, url |-> r.url,
                                         key |-> r.key, snap |-> <<>>]]
            /\ lostPush' = lostPush \ {<<r.cab, r.key>>}
            /\ UNCHANGED reply
    /\ UNCHANGED <<now, nodes, resp, job, CABINETS, topology, listing, board, libVars>>

\* line 441
PushSnapshot(t) ==
    /\ th[t].pc = "snap"
    /\ th' = [th EXCEPT ![t].pc = "send", ![t].snap = Snapshot(DESIRED[th[t].cab])]
    /\ UNCHANGED <<now, nodes, resp, job, CABINETS, DESIRED, reply, lostPush, topology, listing, board, libVars>>

\* the list `snap` holds for key k what the desired marks hold for it
Carries(snap, marks, k) ==
    {snap[i] : i \in {j \in 1..Len(snap) : snap[j].id = JStr(k)}}
      = {Snapshot(marks)[i] : i \in {j \in 1..Len(marks) : marks[j].id = k}}

\* the node serves the request; the lost updates that the list carries are
\* lost no longer
PushApply(t) ==
    /\ th[t].pc = "send"
    /\ nodes' = [nodes EXCEPT ![th[t].url] = PushServed(th[t].url, @, th[t].snap, now).state]
    /\ th' = [th EXCEPT ![t].pc = "wait", ![t].snap = <<>>]
    /\ lostPush' = {x \in lostPush :
                       x[1] # th[t].cab \/ ~Carries(th[t].snap, DESIRED[x[1]], x[2])}
    /\ UNCHANGED <<now, resp, job, CABINETS, DESIRED, reply, topology, listing, board, libVars>>

\* the request never reaches the node: urlopen raises URLError
PushLost(t) ==
    /\ th[t].pc = "send"
    /\ th' = [th EXCEPT ![t] = IdleTh]
    /\ reply' = [status |-> PushStatus("lost", 0)]
    /\ lostPush' = lostPush \cup {<<th[t].cab, th[t].key>>}
    /\ UNCHANGED <<now, nodes, resp, job, CABINETS, DESIRED, topology, listing, board, libVars>>

\* the response of the node arrives
PushDone(t) ==
    /\ th[t].pc = "wait"
    /\ th' = [th EXCEPT ![t] = IdleTh]
    /\ reply' = [status |-> PushStatus("ok", 200)]
    /\ UNCHANGED <<now, nodes, resp, job, CABINETS, DESIRED, lostPush, topology, listing, board, libVars>>

\* the response of the node never arrives: the read times out
PushNoReply(t) ==
    /\ th[t].pc = "wait"
    /\ th' = [th EXCEPT ![t] = IdleTh]
    /\ reply' = [status |-> PushStatus("noreply", 0)]
    /\ UNCHANGED <<now, nodes, resp, job, CABINETS, DESIRED, lostPush, topology, listing, board, libVars>>

NextPush ==
    \/ \E t \in OrchThreads, p \in PushIn : PushAccept(t, p)
    \/ \E t \in OrchThreads : PushSnapshot(t)
    \/ \E t \in OrchThreads : PushApply(t)
    \/ \E t \in OrchThreads : PushLost(t)
    \/ \E t \in OrchThreads : PushDone(t)
    \/ \E t \in OrchThreads : PushNoReply(t)

SpecPush == InitPush /\ [][NextPush]_vars

-----------------------------------------------------------------------------
(* SpecReg: the registry of the orchestrator.  Cabinets are registered,     *)
(* deregistered and listed; the orchestrator restarts and loads the         *)
(* topology file it saved.                                                  *)

RegIn ==
    [alias : {JNull, JStr("x")},
     id    : {JNull, JStr("B")},
     url   : {JStr("u1"), JStr("u1/"), JStr("u2"), JStr("u3"), JStr("u4"), JStr("u5"),
              JStr("u9"), JNull}]

DeregIn == {"A", "B", "C"}

\* GET /api/cabinets
OrchList ==
    /\ listing' = [status |-> 200, items |-> api_cabinets_list(CABINETS)]
    /\ UNCHANGED <<now, nodes, resp, job, CABINETS, DESIRED, reply, th, lostPush, topology, board, libVars>>

\* the orchestrator process is started again: its memory is empty and the
\* module loads topology.json
OrchRestart ==
    /\ CABINETS' = load_topology(topology)
    /\ DESIRED' = <<>>
    /\ reply' = NoReply
    /\ th' = [t \in OrchThreads |-> IdleTh]
    /\ lostPush' = {}
    /\ UNCHANGED <<now, nodes, resp, job, topology, listing, board, libVars>>

NextReg ==
    \/ \E p \in RegIn : OrchRegister(p)
    \/ \E c \in DeregIn : OrchDeregister(c)
    \/ OrchList
    \/ OrchRestart

SpecReg == Init /\ [][NextReg]_vars

-----------------------------------------------------------------------------
(* SpecLoad: the orchestrator starts with a topology.json that was written   *)
(* by hand or by an earlier run, then registers and deregisters cabinets and *)
(* restarts                                                                 *)

MaxFile == 2

\* elements of a "cabinets" list: two records of A (the second with blanks
\* around its strings, row_len as a string and no alias), one of B, one of C,
\* a blank id, a null url, a row_len of 0, a col_len int() rejects, and an
\* element that is no object
FileRecords ==
    { FileRecord(JStr("A"),   JStr("u1"),   JInt(3),   JInt(3),   JStr("x")),
      FileRecord(JStr(" A "), JStr(" u3 "), JStr("3"), JInt(1),   JAbsent),
      FileRecord(JStr("B"),   JStr("u2"),   JInt(3),   JInt(3),   JNull),
      FileRecord(JStr("C"),   JStr("u5"),   JInt(1),   JInt(1),   JStr("x")),
      FileRecord(JStr("  "),  JStr("u2"),   JInt(3),   JInt(3),   JStr("x")),
      FileRecord(JStr("C"),   JNull,        JInt(3),   JInt(3),   JStr("x")),
      FileRecord(JStr("C"),   JStr("u5"),   JInt(0),   JInt(3),   JStr("x")),
      FileRecord(JStr("C"),   JStr("u5"),   JInt(3),   JStr("x"), JStr("x")),
      NotADict }

FileIn == SeqsUpTo(FileRecords, MaxFile)

LoadRegIn == [alias : {JNull}, id : {JNull}, url : {JStr("u1"), JStr("u3"), JStr("u9")}]

\* the orchestrator has started: load_topology() ran at import
InitLoad ==
    /\ now = 0
    /\ nodes = [u \in Urls |-> EmptyState]
    /\ resp = NoResponse
    /\ job = IdleJob
    /\ topology \in FileIn
    /\ CABINETS = load_topology(topology)
    /\ DESIRED = <<>>
    /\ reply = NoReply
    /\ th = [t \in OrchThreads |-> IdleTh]
    /\ lostPush = {}
    /\ listing = NoListing
    /\ board = NoBoard
    /\ call = IdleCall
    /\ lockerMap = <<>>
    /\ ret = NoReturn

NextLoad ==
    \/ \E p \in LoadRegIn : OrchRegister(p)
    \/ \E c \in DeregIn : OrchDeregister(c)
    \/ OrchRestart

SpecLoad == InitLoad /\ [][NextLoad]_vars

-----------------------------------------------------------------------------
(* SpecKeys: the orchestrator with cabinet A loaded from topology.json,     *)
(* one apply-mark intent at a time, the intents of one cell with derived    *)
(* and explicit keys                                                       *)

KeyShapes ==
    { [id |-> JNull,      row |-> JInt(0), col |-> JInt(0), color |-> JStr("red")],
      [id |-> JNull,      row |-> JInt(0), col |-> JInt(0), color |-> JStr("#0000FF")],
      [id |-> JStr("m1"), row |-> JInt(0), col |-> JInt(0), color |-> JStr("#0000FF")],
      [id |-> JStr("m2"), row |-> JInt(0), col |-> JInt(0), color |-> JStr("red")],
      [id |-> JStr("m1"), row |-> JNull,   col |-> JNull,   color |-> JNull] }

KeyIn == IntentsTo({JStr("A")}, KeyShapes)

NextKeys == \E p \in KeyIn, net \in NetIn : OrchMark(p, net)

SpecKeys == InitPush /\ [][NextKeys]_vars

-----------------------------------------------------------------------------
(* hw_server.py home(): the page of a node.  refresh() fetches /api/state   *)
(* and drawBoard draws a segment above every touched column and left of     *)
(* every touched row.                                                      *)

CYCLE_MS == 1000

MaxDraw == 3

\* the two guards of the forEach that fills topMap and leftMap
Drawn(m, rows, cols) == 0 <= m.row /\ m.row < rows /\ 0 <= m.col /\ m.col < cols

\* String(m.color||'#00ff00') of each mark
ColorsOf(marks) ==
    [i \in 1..Len(marks) |-> IF marks[i].color = "" THEN "#00ff00" ELSE marks[i].color]

topMapByRow(marks, rows, cols) ==
    [c \in 0..(cols - 1) |->
        ColorsOf(SelectSeq(marks, LAMBDA m : Drawn(m, rows, cols) /\ m.row = c))]

\* col -> [colors], <<>> for a column no mark touches
topMap(marks, rows, cols) ==
    [c \in 0..(cols - 1) |->
        ColorsOf(SelectSeq(marks, LAMBDA m : Drawn(m, rows, cols) /\ m.col = c))]

\* row -> [colors], <<>> for a row no mark touches
leftMap(marks, rows, cols) ==
    [r \in 0..(rows - 1) |->
        ColorsOf(SelectSeq(marks, LAMBDA m : Drawn(m, rows, cols) /\ m.row = r))]

drawLeftFirst(colors, ms) == colors[1]

\* the stroke of the segment drawTop appends at Date.now() = ms
drawTop(colors, ms) ==
    IF Len(colors) > 1 THEN colors[((ms \div CYCLE_MS) % Len(colors)) + 1] ELSE colors[1]

\* the stroke of the segment drawLeft appends at Date.now() = ms
drawLeft(colors, ms) ==
    IF Len(colors) > 1 THEN colors[((ms \div CYCLE_MS) % Len(colors)) + 1] ELSE colors[1]

drawBoardNoClear(data, ms) ==
    LET tm == topMap(data.marks, data.row_len, data.col_len)
        lm == leftMap(data.marks, data.row_len, data.col_len)
    IN  [at    |-> ms,
         marks |-> data.marks,
         top   |-> [c \in DOMAIN tm |->
                      IF tm[c] # <<>> THEN drawTop(tm[c], ms)
                      ELSE IF board.top # <<>> THEN board.top[c] ELSE None],
         left  |-> [r \in DOMAIN lm |->
                      IF lm[r] # <<>> THEN drawLeft(lm[r], ms)
                      ELSE IF board.left # <<>> THEN board.left[r] ELSE None]]

\* drawBoard(svg, data.row_len, data.col_len, data.marks) at Date.now() = ms:
\* the stroke above each column and left of each row, None where no segment
\* is drawn
drawBoard(data, ms) ==
    LET tm == topMap(data.marks, data.row_len, data.col_len)
        lm == leftMap(data.marks, data.row_len, data.col_len)
    IN  [at    |-> ms,
         marks |-> data.marks,
         top   |-> [c \in DOMAIN tm |-> IF tm[c] = <<>> THEN None ELSE drawTop(tm[c], ms)],
         left  |-> [r \in DOMAIN lm |-> IF lm[r] = <<>> THEN None ELSE drawLeft(lm[r], ms)]]

-----------------------------------------------------------------------------
(* SpecDraw: a node is given its marks by full replaces and its page        *)
(* refreshes at the times of ClockIn                                        *)

DrawItems ==
    { Item(JStr(" default "), JInt(0), JInt(0), JStr("red")),
      Item(JNull, JInt(0), JInt(1), JStr("#0000FF")),
      Item(JStr("m1"), JInt(0), JInt(1), JStr("red")) }

\* batches with a mark on a second row
CrossBatches ==
    { << Item(JNull, JInt(1), JInt(1), JStr("green")) >>,
      << Item(JNull, JInt(1), JInt(1), JStr("green")),
         Item(JNull, JInt(0), JInt(1), JStr("#0000FF")) >>,
      << Item(JStr(" default "), JInt(0), JInt(0), JStr("red")),
         Item(JNull, JInt(0), JInt(1), JStr("#0000FF")),
         Item(JNull, JInt(1), JInt(1), JStr("green")) >> }

DrawBatchIn ==
    {[list |-> TRUE, items |-> q] : q \in SeqsUpTo(DrawItems, MaxDraw) \cup CrossBatches}

\* values of Date.now(), in milliseconds
ClockIn == {0, 999, 1000, 1999, 2000, 2999}

\* setInterval(refresh, REFRESH_MS): the period of the page's redraws
REFRESH_MS == 800

\* refresh()
Draw(u, ms) ==
    /\ board' = drawBoard(api_state(u, nodes[u]).resp.body, ms)
    /\ UNCHANGED <<now, nodes, resp, job, orchVars, libVars>>

NextDraw ==
    \/ \E b \in DrawBatchIn : NodeMarks(TheNode, b)
    \/ \E ms \in ClockIn : Draw(TheNode, ms)

SpecDraw == Init /\ [][NextDraw]_vars

-----------------------------------------------------------------------------
(* keycar_client: HttpTransportClient._request.  The loop runs one urlopen   *)
(* per iteration; the network decides what each urlopen does.               *)

MaxRetries == 2

\* the values of KeyCarConfig.retries a caller configures (the default is 1)
RetriesIn == -2..MaxRetries

\* what one urlopen of the loop does: a JSON body, an empty body, an HTTP
\* error status, a body json.loads rejects, a refused connection, a timeout
Outcomes == {"json", "empty", "http", "badjson", "refused", "timeout"}

AttemptsNoFloor(retries) == retries + 1

\* attempts = max(1, self.cfg.retries + 1)
Attempts(retries) == IF retries + 1 > 1 THEN retries + 1 ELSE 1

\* the call starts: line 45
SdkBegin(retries) ==
    /\ call.pc = "idle"
    /\ call' = [pc |-> "loop", retries |-> retries, attempts |-> Attempts(retries),
                log |-> <<>>, result |-> ""]
    /\ UNCHANGED <<now, nodes, resp, job, orchVars, board, lockerMap, ret>>

\* one iteration of the for loop, lines 47-63
SdkAttempt(o) ==
    /\ call.pc = "loop"
    /\ Len(call.log) < call.attempts
    /\ call' = CASE o = "json"  -> [call EXCEPT !.pc = "returned", !.log = Append(@, o),
                                                !.result = "decoded"]
                 [] o = "empty" -> [call EXCEPT !.pc = "returned", !.log = Append(@, o),
                                                !.result = "{}"]
                 [] o = "http"  -> [call EXCEPT !.pc = "raised", !.log = Append(@, o),
                                                !.result = "OrchestratorError"]
                 [] OTHER       -> [call EXCEPT !.log = Append(@, o)]
    /\ UNCHANGED <<now, nodes, resp, job, orchVars, board, lockerMap, ret>>

\* the loop is exhausted: line 64
SdkExhausted ==
    /\ call.pc = "loop"
    /\ Len(call.log) >= call.attempts
    /\ call' = [call EXCEPT !.pc = "raised", !.result = "TransportError"]
    /\ UNCHANGED <<now, nodes, resp, job, orchVars, board, lockerMap, ret>>

\* the caller has its result and may call again
SdkDone ==
    /\ call.pc \in {"returned", "raised"}
    /\ call' = IdleCall
    /\ UNCHANGED <<now, nodes, resp, job, orchVars, board, lockerMap, ret>>

NextSdk ==
    \/ \E r \in RetriesIn : SdkBegin(r)
    \/ \E o \in Outcomes : SdkAttempt(o)
    \/ SdkExhausted
    \/ SdkDone

SpecSdk == Init /\ [][NextSdk]_vars

\* urlopen returns or raises within timeout_s, and the loop goes on
SpecSdkFair ==
    /\ SpecSdk
    /\ WF_vars(\E o \in Outcomes : SdkAttempt(o))
    /\ WF_vars(SdkExhausted)

-----------------------------------------------------------------------------
(* core.py: sanitize_plate and LockerAssigner.  A str is the sequence of    *)
(* its characters.                                                          *)

\* a str value, and a value that is no str
Plate(chars) == [str |-> TRUE, chars |-> chars]

NotAStr == [str |-> FALSE, chars |-> <<>>]

\* the characters str.strip() removes
Whitespace == {" ", "\t", "\n"}

RECURSIVE LStrip(_)
LStrip(s) == IF s # <<>> /\ Head(s) \in Whitespace THEN LStrip(Tail(s)) ELSE s

RECURSIVE RStrip(_)
RStrip(s) ==
    IF s # <<>> /\ s[Len(s)] \in Whitespace THEN RStrip(SubSeq(s, 1, Len(s) - 1)) ELSE s

\* plate.strip()
StripChars(s) == RStrip(LStrip(s))

\* p.replace(" ", "")
RemoveSpaces(s) == SelectSeq(s, LAMBDA c : c # " ")

Lowers ==
    << "a", "b", "c", "d", "e", "f", "g", "h", "i", "j", "k", "l", "m",
       "n", "o", "p", "q", "r", "s", "t", "u", "v", "w", "x", "y", "z" >>

Uppers ==
    << "A", "B", "C", "D", "E", "F", "G", "H", "I", "J", "K", "L", "M",
       "N", "O", "P", "Q", "R", "S", "T", "U", "V", "W", "X", "Y", "Z" >>

Digits == {"0", "1", "2", "3", "4", "5", "6", "7", "8", "9"}

\* p.upper()
UpperChars(s) ==
    [i \in 1..Len(s) |->
        IF \E k \in 1..26 : Lowers[k] = s[i]
        THEN Uppers[CHOOSE k \in 1..26 : Lowers[k] = s[i]]
        ELSE s[i]]

PlateMin == 3

PlateMax == 10

PlateReNoMax(s) ==
    /\ PlateMin <= Len(s)
    /\ \A i \in 1..Len(s) : s[i] \in {Uppers[k] : k \in 1..26} \cup Digits \cup {"-"}

\* PLATE_RE.fullmatch(s) for ^[A-Z0-9-]{3,10}$
PLATE_RE(s) ==
    /\ PlateMin <= Len(s) /\ Len(s) <= PlateMax
    /\ \A i \in 1..Len(s) : s[i] \in {Uppers[k] : k \in 1..26} \cup Digits \cup {"-"}

sanitize_plate(plate) ==
    IF ~plate.str THEN <<>>
    ELSE LET p == UpperChars(RemoveSpaces(StripChars(plate.chars))) IN
         IF PLATE_RE(IF p = <<>> THEN <<" ">> ELSE p) THEN p ELSE <<>>

NextFreeAfterLast(used, idx) ==
    IF used = {} THEN idx ELSE 1 + CHOOSE m \in used : \A x \in used : x <= m

\* while idx in used: idx += 1
RECURSIVE NextFree(_, _)
NextFree(used, idx) == IF idx \in used THEN NextFree(used, idx + 1) ELSE idx

\* LockerAssigner.assign over the map M: the new map and what is returned
assign(M, raw_plate) ==
    LET p == sanitize_plate(raw_plate) IN
    IF p = <<>> THEN [map |-> M, ret |-> Return("assign", raw_plate, p, TRUE, -1, FALSE)]
    ELSE IF p \in Keys(M)
    THEN [map |-> M, ret |-> Return("assign", raw_plate, p, FALSE, Lookup(M, p).idx, FALSE)]
    ELSE LET idx == NextFree({M[i].idx : i \in 1..Len(M)}, 0) IN
         [map |-> Append(M, [id |-> p, idx |-> idx]),
          ret |-> Return("assign", raw_plate, p, FALSE, idx, TRUE)]

\* LockerAssigner.lookup: idx -1 stands for None
lookup(M, raw_plate) ==
    LET p == sanitize_plate(raw_plate) IN
    IF p = <<>> THEN [map |-> M, ret |-> Return("lookup", raw_plate, p, TRUE, -1, FALSE)]
    ELSE [map |-> M,
          ret |-> Return("lookup", raw_plate, p, FALSE,
                         IF p \in Keys(M) THEN Lookup(M, p).idx ELSE -1, p \in Keys(M))]

release_keep(M, raw_plate) ==
    LET p == sanitize_plate(raw_plate) IN
    IF p = <<>> THEN [map |-> M, ret |-> Return("release", raw_plate, p, TRUE, -1, FALSE)]
    ELSE [map |-> M, ret |-> Return("release", raw_plate, p, FALSE, -1, p \in Keys(M))]

\* LockerAssigner.release: flag is the bool returned
release(M, raw_plate) ==
    LET p == sanitize_plate(raw_plate) IN
    IF p = <<>> THEN [map |-> M, ret |-> Return("release", raw_plate, p, TRUE, -1, FALSE)]
    ELSE [map |-> DictPop(M, p), ret |-> Return("release", raw_plate, p, FALSE, -1, p \in Keys(M))]

-----------------------------------------------------------------------------
(* SpecCore: one LockerAssigner whose methods are called with the plates of *)
(* PlateIn                                                                  *)

PlateIn ==
    { Plate(<<" ", "a", "b", "c", "-", "1", "2", "3", " ">>),
      Plate(<<"A", "B", "C", "-", "1", "2", "3">>),
      Plate(<<"\t", "x", " ", "y", "9", "\n">>),
      Plate(<<"A", "B", "C", "D", "E", "F", "G", "H", "I", "9">>),
      Plate(<<"A", "B", "C", "D", "E", "F", "G", "H", "I", "9", "0">>),
      Plate(<<"a">>),
      Plate(<<"A", "B">>),
      Plate(<<"a", "\t", "b", "c">>),
      Plate(<<"A", "B", "_", "1">>),
      Plate(<<" ", " ">>),
      Plate(<<>>),
      NotAStr }

Assign(raw) ==
    LET r == assign(lockerMap, raw) IN
    /\ lockerMap' = r.map
    /\ ret' = r.ret
    /\ UNCHANGED <<now, nodes, resp, job, orchVars, board, call>>

LookupPlate(raw) ==
    LET r == lookup(lockerMap, raw) IN
    /\ lockerMap' = r.map
    /\ ret' = r.ret
    /\ UNCHANGED <<now, nodes, resp, job, orchVars, board, call>>

Release(raw) ==
    LET r == release(lockerMap, raw) IN
    /\ lockerMap' = r.map
    /\ ret' = r.ret
    /\ UNCHANGED <<now, nodes, resp, job, orchVars, board, call>>

NextCore ==
    \/ \E raw \in PlateIn : Assign(raw)
    \/ \E raw \in PlateIn : LookupPlate(raw)
    \/ \E raw \in PlateIn : Release(raw)

SpecCore == Init /\ [][NextCore]_vars

-----------------------------------------------------------------------------
(* Claims *)

\* what a client expects of the colors and ids it sends
ExpectedHex == ("red" :> "#ff0000") @@ ("#0000FF" :> "#0000ff")

ExpectedId == (" default " :> "default") @@ ("m1" :> "m1") @@ ("m2" :> "m2")

ExpectedDerived == (<<0, 0>> :> "r0c0") @@ (<<0, 1>> :> "r0c1") @@ (<<3, 0>> :> "r3c0")

\* a sequence of marks without the timestamps
Shown(marks) ==
    [i \in 1..Len(marks) |->
        [id |-> marks[i].id, row |-> marks[i].row, col |-> marks[i].col, color |-> marks[i].color]]

ShownSet(marks) == {Shown(marks)[i] : i \in 1..Len(marks)}

\* the marks of a desired map that the validation of the node at u accepts,
\* as the node shows them
ValidDesired(u, marks) ==
    { [id |-> marks[i].id, row |-> marks[i].row, col |-> marks[i].col,
       color |-> ExpectedHex[marks[i].color]] :
      i \in { j \in 1..Len(marks) :
                /\ 0 <= marks[j].row /\ marks[j].row < NodeCfg[u].row_len
                /\ 0 <= marks[j].col /\ marks[j].col < NodeCfg[u].col_len
                /\ marks[j].color \in DOMAIN ExpectedHex } }

\* C1: whenever an apply-mark intent completes with a successful push while no
\* other push to the cabinet is in flight and no update is lost, the node
\* holds exactly the desired marks that pass its validation (same id, row,
\* col, normalized color).
C1_NodeHoldsDesiredAfterPush ==
    [][\A t \in OrchThreads :
         ( /\ th[t].pc = "wait" /\ th'[t].pc = "idle" /\ reply'.status = 200
           /\ lostPush = {}
           /\ \A t2 \in OrchThreads \ {t} : th[t2].pc = "idle" )
         => ShownSet(nodes'[th[t].url].marks) = ValidDesired(th[t].url, DESIRED'[th[t].cab])]_vars

\* the desired and the shown mark of key k agree: both absent, or the same mark
Agrees(shown, marks, k) ==
    IF k \in Keys(marks)
    THEN /\ k \in Keys(shown)
         /\ Lookup(shown, k).row = Lookup(marks, k).row
         /\ Lookup(shown, k).col = Lookup(marks, k).col
         /\ Lookup(marks, k).color \in DOMAIN ExpectedHex
         /\ Lookup(shown, k).color = ExpectedHex[Lookup(marks, k).color]
    ELSE k \notin Keys(shown)

\* C2: the desired-state update of an intent whose push was lost is kept, and
\* the next push the node serves installs it (the node then agrees with the
\* desired state on every key whose update was lost).
C2_LostPushCorrectedByNext ==
    [][\A t \in OrchThreads :
         (th[t].pc = "send" /\ th'[t].pc = "wait")
         => \A x \in lostPush :
              x[1] = th[t].cab => Agrees(nodes'[th[t].url].marks, DESIRED[x[1]], x[2])]_vars

\* C3: pushes to one cabinet are applied in the order of their desired-state
\* updates: when the node serves the last push in flight and no update is
\* lost, it reflects the latest desired state.
C3_LatestDesiredStateWins ==
    [][\A t \in OrchThreads :
         ( /\ th[t].pc = "send" /\ th'[t].pc = "wait"
           /\ lostPush = {}
           /\ \A t2 \in OrchThreads \ {t} : th[t2].pc \in {"idle", "wait"} )
         => ShownSet(nodes'[th[t].url].marks) = ValidDesired(th[t].url, DESIRED[th[t].cab])]_vars

\* the entries of the batch that the running replace_all has gone through
Processed == SubSeq(job.batch, 1, Len(job.batch) - Len(job.items))

\* C4: a state report served while replace_all runs, with no other write in
\* between, shows the complete mark set from before the replace_all or the
\* complete set it installs.
C4_ReportNeverHalfApplied ==
    [][( /\ job' = job /\ nodes' = nodes /\ job.pc \in {"loop", "count"}
         /\ nodes[TheNode].marks = ReplaceLoop(TheNode, <<>>, Processed, now)
         /\ resp'.body.cabinet_id # "" )
       => Shown(resp'.body.marks) \in
            { Shown(job.pre), Shown(ReplaceLoop(TheNode, <<>>, job.batch, now)) }]_vars

IsNormalized(c) == c \in {"#ff0000", "#0000ff", "#00ff00"}

\* C5: every mark of a node's store has 0 <= row < ROW_LEN, 0 <= col < COL_LEN
\* and a normalized lowercase #rrggbb color.
C5_StoredMarksValid ==
    \A u \in Urls : \A i \in 1..Len(nodes[u].marks) :
        LET m == nodes[u].marks[i] IN
        /\ 0 <= m.row /\ m.row < NodeCfg[u].row_len
        /\ 0 <= m.col /\ m.col < NodeCfg[u].col_len
        /\ IsNormalized(m.color)

C5_Witness ==
    /\ Len(nodes[TheNode].marks) = 3
    /\ \E i, j \in 1..3 : /\ nodes[TheNode].marks[i].color = "#0000ff"
                          /\ nodes[TheNode].marks[j].color = "#ff0000"
                          /\ nodes[TheNode].marks[j].col = 1

\* C6: every desired mark of a registered cabinet lies within the registered
\* row_len/col_len and has a normalized color.
C6_DesiredMarksValid ==
    \A c \in DOMAIN DESIRED : c \in Keys(CABINETS) =>
        \A i \in 1..Len(DESIRED[c]) :
            LET m == DESIRED[c][i] IN
            /\ 0 <= m.row /\ m.row < Lookup(CABINETS, c).row_len
            /\ 0 <= m.col /\ m.col < Lookup(CABINETS, c).col_len
            /\ IsNormalized(m.color)

\* the on-intents of the model whose row or column is outside a 3x3 grid
OutOfRangeIn ==
    { p \in IntentIn : /\ p.on = JBool(TRUE)
                       /\ p.row.k = "int" /\ p.col.k = "int"
                       /\ ~(0 <= p.row.i /\ p.row.i < 3 /\ 0 <= p.col.i /\ p.col.i < 3) }

\* C7: an on-intent whose row or column is outside the registered grid is
\* answered with a validation failure (400) and leaves the node's store as
\* it was.
C7_OutOfRangeIntentRejected ==
    [][\A p \in OutOfRangeIn :
         (OrchMark(p, "ok") /\ p.cabinet.s \in Keys(CABINETS))
         => (reply'.status = 400 /\ nodes' = nodes)]_vars

\* the key an intent resolves to, as its sender expects
ExpectedKey(p) ==
    IF p.id.k = "str" THEN ExpectedId[p.id.s] ELSE ExpectedDerived[<<p.row.i, p.col.i>>]

\* the intents of the model that are addressed to cabinet A
ToA == {p \in IntentIn : p.cabinet = JStr("A")}

\* C8: with A and B registered, in every state an intent addressed to A
\* leaves B's desired state and B's node untouched and sends no request to B;
\* an on-intent that is accepted puts its mark into A's snapshot, and when the
\* push is answered with success A's node shows the marks of that snapshot
\* that pass its validation.
C8_IntentChangesOnlyItsCabinet ==
    {"A", "B"} \subseteq Keys(CABINETS) =>
    \A p \in ToA, net \in NetIn :
        LET r == orch_api_mark(CABINETS, DESIRED, nodes, p, net, now) IN
        /\ r.nodes["u2"] = nodes["u2"]
        /\ r.sent # "u2"
        /\ \A c \in (DOMAIN DESIRED \cup DOMAIN r.desired) \ {"A"} :
               c \in DOMAIN DESIRED /\ c \in DOMAIN r.desired /\ r.desired[c] = DESIRED[c]
        /\ (r.sent # "" /\ p.on = JBool(TRUE)) =>
               /\ ExpectedKey(p) \in Keys(r.desired["A"])
               /\ Lookup(r.desired["A"], ExpectedKey(p)).row = p.row.i
               /\ Lookup(r.desired["A"], ExpectedKey(p)).col = p.col.i
               /\ Lookup(r.desired["A"], ExpectedKey(p)).color = p.color.s
        /\ (r.status = 200) =>
               ShownSet(r.nodes["u1"].marks) = ValidDesired("u1", r.desired["A"])

C8_Witness ==
    /\ Keys(CABINETS) = {"A", "B"}
    /\ CABINETS[1].id = "B"
    /\ reply.status = 200
    /\ "B" \in DOMAIN DESIRED /\ Len(DESIRED["B"]) = 1
    /\ Len(nodes["u2"].marks) = 1
    /\ "A" \in DOMAIN DESIRED /\ Len(DESIRED["A"]) = 2
    /\ Len(nodes["u1"].marks) = 2

\* the single-mark sets of the model that are valid for the grid of TheNode
ValidSetIn ==
    { p \in MarkIn : /\ p.on # JBool(FALSE)
                     /\ p.row.k = "int" /\ 0 <= p.row.i /\ p.row.i < NodeCfg[TheNode].row_len
                     /\ p.col.k = "int" /\ 0 <= p.col.i /\ p.col.i < NodeCfg[TheNode].col_len
                     /\ p.color.k = "str" /\ p.color.s \in DOMAIN ExpectedHex }

\* the two requests that delete the mark a set p created: p with on false,
\* and its id alone with on false
DeletesOf(p) ==
    { [p EXCEPT !.on = JBool(FALSE)],
      [id |-> JStr(ExpectedKey(p)), row |-> JNull, col |-> JNull, color |-> JNull,
       on |-> JBool(FALSE)] }

\* C9: in every state of a node, a valid single-mark set followed by a state
\* report shows that id once, with that row, col and normalized color; a
\* delete of the id after it is answered ok and the next report lacks the id.
C9_SetReportDelete ==
    \A p \in ValidSetIn :
        LET o1  == api_mark(TheNode, nodes[TheNode], p, now)
            rep == Shown(api_state(TheNode, o1.state).resp.body.marks)
            k   == ExpectedKey(p)
        IN  /\ o1.resp.status = 200
            /\ Cardinality({i \in 1..Len(rep) : rep[i].id = k}) = 1
            /\ [id |-> k, row |-> p.row.i, col |-> p.col.i, color |-> ExpectedHex[p.color.s]]
                   \in {rep[i] : i \in 1..Len(rep)}
            /\ \A d \in DeletesOf(p) :
                   LET o2 == api_mark(TheNode, o1.state, d, now) IN
                   /\ o2.resp.status = 200
                   /\ k \notin Keys(api_state(TheNode, o2.state).resp.body.marks)

\* a state report that shows the explicit id and a derived one after their sets
C9_Witness ==
    /\ resp.status = 200
    /\ resp.body.cabinet_id = "A"
    /\ resp.body.marks = nodes[TheNode].marks
    /\ {"default", "r0c1"} \subseteq Keys(resp.body.marks)
    /\ Lookup(resp.body.marks, "default").col = 1
    /\ Lookup(resp.body.marks, "default").color = "#0000ff"

\* C10: in every state of a node, for every batch, applying the batch twice in
\* a row leaves the same snapshot (ids, rows, cols, colors, order) and the
\* same count after the second application as after the first.
C10_ReplaceAllIdempotent ==
    \A b \in {x \in BatchIn : x.list} : \A t2 \in {now, MaxTime} :
        LET o1 == api_marks(TheNode, nodes[TheNode], b, now)
            o2 == api_marks(TheNode, o1.state, b, t2)
        IN  /\ Shown(to_dict(TheNode, o1.state).marks) = Shown(to_dict(TheNode, o2.state).marks)
            /\ o1.resp = o2.resp

\* a full replace of two marks was answered over a store that held another
C10_Witness ==
    /\ resp.status = 200
    /\ resp.count = 2
    /\ Len(nodes[TheNode].marks) = 2
    /\ Keys(nodes[TheNode].marks) = {"default", "r0c1"}

\* an entry of a batch passes the per-mark validation of the node at u
ValidItem(u, it) ==
    /\ it.row.k = "int" /\ 0 <= it.row.i /\ it.row.i < NodeCfg[u].row_len
    /\ it.col.k = "int" /\ 0 <= it.col.i /\ it.col.i < NodeCfg[u].col_len
    /\ it.color.k = "str" /\ it.color.s \in DOMAIN ExpectedHex

\* the marks a batch is expected to install: its valid entries, the last one
\* of each key
ExpectedInstall(u, items) ==
    { [id |-> ExpectedKey(items[i]), row |-> items[i].row.i, col |-> items[i].col.i,
       color |-> ExpectedHex[items[i].color.s]] :
      i \in { j \in 1..Len(items) :
                /\ ValidItem(u, items[j])
                /\ \A l \in (j+1)..Len(items) :
                       ValidItem(u, items[l]) => ExpectedKey(items[l]) # ExpectedKey(items[j]) } }

\* C11: in every state of a node, a full replace answers 200, leaves in the
\* store exactly the valid entries of the batch (none of the previous marks,
\* no out-of-range or invalid-color entry) and reports the number of marks it
\* installed.
C11_ReplaceAllInstallsValidEntries ==
    \A b \in {x \in BatchIn : x.list} :
        LET o == api_marks(TheNode, nodes[TheNode], b, now) IN
        /\ o.resp.status = 200
        /\ ShownSet(o.state.marks) = ExpectedInstall(TheNode, b.items)
        /\ Len(o.state.marks) = Cardinality(ExpectedInstall(TheNode, b.items))
        /\ o.resp.count = Cardinality(ExpectedInstall(TheNode, b.items))

\* a batch answered with count 1 left the single mark "default" in the store
C11_Witness ==
    /\ resp.status = 200
    /\ resp.count = 1
    /\ Shown(nodes[TheNode].marks) = <<[id |-> "default", row |-> 0, col |-> 0, color |-> "#ff0000"]>>

\* the colors of the marks of a snapshot that lie on row r, in snapshot order
RowColors(marks, r) ==
    LET on == SelectSeq(marks, LAMBDA m : m.row = r) IN [i \in 1..Len(on) |-> on[i].color]

\* the colors of the marks of a snapshot that lie on column c, in snapshot order
ColColors(marks, c) ==
    LET on == SelectSeq(marks, LAMBDA m : m.col = c) IN [i \in 1..Len(on) |-> on[i].color]

\* colors[floor(t / 1000) mod len(colors)], counting positions from zero
Rotation(colors, t) == colors[((t \div 1000) % Len(colors)) + 1]

\* C12: on every board drawn, a row or column touched by more than one mark
\* shows colors[floor(now / cycle) mod len(colors)], colors being the
\* touching marks' colors in snapshot order; with red then blue on a line
\* and a 1000 ms cycle, red is shown in [0,1000) and blue in [1000,2000).
C12_RotationByCycle ==
    board # NoBoard =>
      /\ \A r \in 0..2 :
            LET colors == RowColors(board.marks, r) IN
            /\ Len(colors) > 1 => board.left[r] = Rotation(colors, board.at)
            /\ colors = <<"#ff0000", "#0000ff">> =>
                 /\ board.at \in 0..999 => board.left[r] = "#ff0000"
                 /\ board.at \in 1000..1999 => board.left[r] = "#0000ff"
      /\ \A c \in 0..2 :
            LET colors == ColColors(board.marks, c) IN
            Len(colors) > 1 => board.top[c] = Rotation(colors, board.at)

\* red then blue on row 0, drawn in the second cycle
C12_Witness ==
    /\ board # NoBoard
    /\ RowColors(board.marks, 0) = <<"#ff0000", "#0000ff">>
    /\ board.at = 1000
    /\ board.left[0] = "#0000ff"

\* the on-intents of SpecKeys that carry row, col and color, without an id
\* and with one
DerivedOnIn ==
    {p \in KeyIn : p.on = JBool(TRUE) /\ p.id = JNull /\ p.row.k = "int" /\ p.color.k = "str"}

ExplicitOnIn ==
    {p \in KeyIn : p.on = JBool(TRUE) /\ p.id.k = "str" /\ p.row.k = "int" /\ p.color.k = "str"}

\* the desired entry an on-intent is expected to leave
ExpectedEntry(p) ==
    [id |-> ExpectedKey(p), row |-> p.row.i, col |-> p.col.i, color |-> p.color.s]

\* C13: in every state, two on-intents for cabinet A with the same (row, col)
\* and no id leave one desired entry under the derived key r{row}c{col},
\* carrying the color of the second; the second adds no entry and changes no
\* other entry.
C13_DerivedKeyUpdatesInPlace ==
    \A p1, p2 \in DerivedOnIn :
        (p1.row = p2.row /\ p1.col = p2.col) =>
        LET r1 == orch_api_mark(CABINETS, DESIRED, nodes, p1, "ok", now)
            r2 == orch_api_mark(CABINETS, r1.desired, r1.nodes, p2, "ok", now)
            d1 == Shown(r1.desired["A"])
            d2 == Shown(r2.desired["A"])
        IN  /\ ExpectedKey(p1) = ExpectedKey(p2)
            /\ Len(d2) = Len(d1)
            /\ \A i \in 1..Len(d2) :
                   d2[i] = IF d1[i].id = ExpectedKey(p2) THEN ExpectedEntry(p2) ELSE d1[i]
            /\ Cardinality({i \in 1..Len(d2) : d2[i].id = ExpectedKey(p2)}) = 1

\* the second of two intents for r0c0 updated the entry; its push was lost,
\* the node still shows the first
C13_Witness ==
    /\ "A" \in DOMAIN DESIRED
    /\ Shown(DESIRED["A"]) = <<[id |-> "r0c0", row |-> 0, col |-> 0, color |-> "#0000FF"]>>
    /\ Shown(nodes["u1"].marks) = <<[id |-> "r0c0", row |-> 0, col |-> 0, color |-> "#ff0000"]>>

C15_OffIntentRemovesItsKey ==
    [][\A p \in {x \in KeyIn : x.on = JBool(FALSE) /\ x.id.k = "str"} :
         (OrchMark(p, "ok") /\ "A" \in DOMAIN DESIRED /\ ExpectedKey(p) \in Keys(DESIRED["A"]))
         => /\ ExpectedKey(p) \notin Keys(DESIRED'["A"])
            /\ reply'.status = 200
            /\ ExpectedKey(p) \notin Keys(nodes'["u1"].marks)]_vars

\* the intents of the model that name a cabinet the registry does not hold
UnknownIn == {p \in IntentIn : p.cabinet.k = "str" /\ p.cabinet.s \notin Keys(CABINETS)}

\* C16: in every state, an intent naming a cabinet that is not registered
\* (never registered, or deregistered) is answered 404, leaves the desired
\* state as it was and sends no request to a node.
C16_UnknownCabinetRejected ==
    \A p \in UnknownIn, net \in NetIn :
        LET r == orch_api_mark(CABINETS, DESIRED, nodes, p, net, now) IN
        /\ r.status = 404
        /\ r.desired = DESIRED
        /\ r.sent = ""
        /\ r.nodes = nodes

\* A was deregistered with marks desired for it, a later request got 404
C16_Witness ==
    /\ Keys(CABINETS) = {"B"}
    /\ "A" \in DOMAIN DESIRED /\ Len(DESIRED["A"]) = 2
    /\ "B" \notin DOMAIN DESIRED
    /\ reply.status = 404

\* the urls of the model whose probe fails or reports an empty identifier or
\* a row_len that is not positive
BadProbe == {"u4", "u5", "u9"}

\* what the node behind each other url reports, and the url stored for it
Reported ==
    ("u1"  :> [id |-> "A", url |-> "u1", row_len |-> 3, col_len |-> 3]) @@
    ("u1/" :> [id |-> "A", url |-> "u1", row_len |-> 3, col_len |-> 3]) @@
    ("u2"  :> [id |-> "B", url |-> "u2", row_len |-> 3, col_len |-> 3]) @@
    ("u3"  :> [id |-> "A", url |-> "u3", row_len |-> 2, col_len |-> 4])

\* C17: in every state, a register whose probe fails, or reports an empty
\* identifier or a non-positive dimension, is rejected (400 or 502); every
\* rejected register leaves the registry and the topology file unchanged.
C17_BadRegisterChangesNothing ==
    \A p \in RegIn :
        LET r == api_cabinets_add(CABINETS, topology, p) IN
        /\ (p.url.k = "str" /\ p.url.s \in BadProbe) => r.status \in {400, 502}
        /\ r.status # 200 => (r.cabinets = CABINETS /\ r.topology = topology)

\* a register was answered 400 with two cabinets registered and saved
C17_Witness ==
    /\ reply.status = 400
    /\ Keys(CABINETS) = {"A", "B"}
    /\ Len(topology) = 2

\* C18: in every state, a register of a url whose node reports a valid state
\* is stored under the identifier the node reports, with that url and those
\* dimensions and the caller's alias (or id) as alias; the registry keeps
\* one entry per identifier, every other entry unchanged, and the caller's
\* id becomes no key.
C18_KeyedByReportedIdentifier ==
    \A p \in {x \in RegIn : x.url.k = "str" /\ x.url.s \in DOMAIN Reported} :
        LET r   == api_cabinets_add(CABINETS, topology, p)
            rep == Reported[p.url.s]
            al  == IF p.alias.k = "str" THEN p.alias.s ELSE IF p.id.k = "str" THEN p.id.s ELSE ""
        IN  /\ r.status = 200
            /\ Keys(r.cabinets) = Keys(CABINETS) \cup {rep.id}
            /\ Len(r.cabinets) = Cardinality(Keys(r.cabinets))
            /\ Lookup(r.cabinets, rep.id) =
                 [id |-> rep.id, url |-> rep.url, row_len |-> rep.row_len,
                  col_len |-> rep.col_len, alias |-> al]
            /\ \A c \in Keys(CABINETS) \ {rep.id} : Lookup(r.cabinets, c) = Lookup(CABINETS, c)

\* A was listed at u1, then registered again from u3 by a caller naming it B
C18_Witness ==
    /\ reply.status = 200
    /\ listing.status = 200
    /\ Len(listing.items) = 1 /\ listing.items[1].id = "A" /\ listing.items[1].url = "u1"
    /\ CABINETS = <<[id |-> "A", url |-> "u3", row_len |-> 2, col_len |-> 4, alias |-> "B"]>>

\* C19: in every state, a deregister of a registered identifier is answered
\* 200 and removes that entry alone, the others keeping their content and
\* order; a deregister of an identifier that is not registered is answered
\* 404 and leaves registry and topology file unchanged.
C19_DeregisterRemovesOneEntry ==
    \A cid \in DeregIn :
        LET r == api_cabinets_delete(CABINETS, topology, cid) IN
        IF \E i \in 1..Len(CABINETS) : CABINETS[i].id = cid
        THEN /\ r.status = 200
             /\ r.cabinets = SelectSeq(CABINETS, LAMBDA e : e.id # cid)
        ELSE /\ r.status = 404
             /\ r.cabinets = CABINETS
             /\ r.topology = topology

\* A and B were listed, A was deregistered, a further deregister got 404
C19_Witness ==
    /\ listing.status = 200
    /\ {listing.items[i].id : i \in 1..Len(listing.items)} = {"A", "B"}
    /\ Keys(CABINETS) = {"B"}
    /\ Len(CABINETS) = 1
    /\ reply.status = 404

\* C20: every list response holds each registered entry once, in ascending
\* order of identifier.
C20_ListOrderedByIdentifier ==
    listing.status = 200 =>
        \A i, j \in 1..Len(listing.items) :
            i < j => IdRank[listing.items[i].id] < IdRank[listing.items[j].id]

\* C21: in every state the desired state holds marks only for registered
\* cabinets: once a cabinet is deregistered no desired mark of it remains,
\* so a later registration of it starts from an empty desired map.
C21_DeregisterDropsDesired ==
    \A c \in DOMAIN DESIRED : DESIRED[c] # <<>> => c \in Keys(CABINETS)

\* C22: every transport call is attempted at most once per invocation: an
\* SDK request never runs a second urlopen.
C22_NoSecondAttempt == Len(call.log) <= 1

\* C23: in every state, an intent answered 200 returns to its caller the
\* count the node reports for the full replace, the number of marks in the
\* node's store after the push.
C23_PushReturnsInstalledCount ==
    \A p \in IntentIn :
        LET r == orch_api_mark(CABINETS, DESIRED, nodes, p, "ok", now) IN
        r.status = 200 => r.count = Len(r.nodes[r.sent].marks)

\* the cycles a window may start at, and the phases of the page's timer
MaxCycle == 2

PhaseIn == {0, 400, 799}

\* the instants of the redraws of a page loaded at `phase` that fall in the
\* cycles k .. k+n-1
RedrawsIn(phase, k, n) ==
    {t \in {phase + REFRESH_MS * m : m \in 0..(2 * (k + n))} :
        k <= t \div 1000 /\ t \div 1000 < k + n}

ExpectedStroke(colors, t) ==
    IF colors = <<>> THEN None
    ELSE IF Len(colors) > 1 THEN Rotation(colors, t) ELSE colors[1]

\* C25: every board drawn is determined by the snapshot it was drawn from
\* and the time of the draw alone, whatever was drawn or served before:
\* each line shows the stroke its touching marks give at that time.  A state
\* report leaves the marks and the timestamp of the store as they are, and
\* a draw changes nothing of any node.
C25_ProjectionPureAndReadOnly ==
    /\ board # NoBoard =>
         /\ \A r \in 0..2 : board.left[r] = ExpectedStroke(RowColors(board.marks, r), board.at)
         /\ \A c \in 0..2 : board.top[c] = ExpectedStroke(ColColors(board.marks, c), board.at)
    /\ \A u \in Urls :
         /\ api_state(u, nodes[u]).state = nodes[u]
         /\ api_state(u, nodes[u]).resp.body.marks = nodes[u].marks
         /\ \A ms \in ClockIn : drawBoard(api_state(u, nodes[u]).resp.body, ms).marks = nodes[u].marks

\* the page drew the store of one red mark at (0,0) late in the second
\* cycle: row 0 and column 0 are lit, no other column is
C25_Witness ==
    /\ board # NoBoard
    /\ board.marks = nodes[TheNode].marks
    /\ Len(board.marks) = 1
    /\ board.top[0] = "#ff0000" /\ board.top[1] = None /\ board.top[2] = None
    /\ board.left[0] = "#ff0000"
    /\ board.at = 1999

\* the registry entry a record of FileRecords is installed as; the other
\* elements of FileRecords are skipped
Installs ==
    (FileRecord(JStr("A"), JStr("u1"), JInt(3), JInt(3), JStr("x")) :>
        [id |-> "A", url |-> "u1", row_len |-> 3, col_len |-> 3, alias |-> "x"]) @@
    (FileRecord(JStr(" A "), JStr(" u3 "), JStr("3"), JInt(1), JAbsent) :>
        [id |-> "A", url |-> "u3", row_len |-> 3, col_len |-> 1, alias |-> ""]) @@
    (FileRecord(JStr("B"), JStr("u2"), JInt(3), JInt(3), JNull) :>
        [id |-> "B", url |-> "u2", row_len |-> 3, col_len |-> 3, alias |-> ""]) @@
    (FileRecord(JStr("C"), JStr("u5"), JInt(1), JInt(1), JStr("x")) :>
        [id |-> "C", url |-> "u5", row_len |-> 1, col_len |-> 1, alias |-> "x"])

\* the entries of the records of file T that have an id, a url and positive
\* dimensions, in file order, one per identifier (the first of the file)
ExpectedLoad(T) ==
    LET ok    == SelectSeq(T, LAMBDA it : it \in DOMAIN Installs)
        first == {i \in 1..Len(ok) : \A j \in 1..(i - 1) : Installs[ok[j]].id # Installs[ok[i]].id}
        pos   == [k \in 1..Cardinality(first) |->
                    CHOOSE i \in first : Cardinality({j \in first : j < i}) = k - 1]
    IN  [k \in 1..Len(pos) |-> Installs[ok[pos[k]]]]

\* the two registries hold the same entries, whatever their order
SameRegistry(X, Y) ==
    /\ Len(X) = Len(Y)
    /\ {X[i] : i \in 1..Len(X)} = {Y[i] : i \in 1..Len(Y)}

C27_LedKeepsRowCol ==
    \A p \in {x \in LedIn : x.on = JBool(TRUE) /\ x.color.k = "str"} :
        "default" \in Keys(nodes[TheNode].marks) =>
            LET before == Lookup(nodes[TheNode].marks, "default")
                after  == Lookup(api_led(TheNode, nodes[TheNode], p, now).state.marks, "default")
            IN  /\ after.row = before.row
                /\ after.col = before.col
                /\ after.color = ExpectedHex[p.color.s]

\* what strip, removal of spaces and upper make of each raw plate of PlateIn
Cleaned ==
    (Plate(<<" ", "a", "b", "c", "-", "1", "2", "3", " ">>) :> <<"A", "B", "C", "-", "1", "2", "3">>) @@
    (Plate(<<"A", "B", "C", "-", "1", "2", "3">>) :> <<"A", "B", "C", "-", "1", "2", "3">>) @@
    (Plate(<<"\t", "x", " ", "y", "9", "\n">>) :> <<"X", "Y", "9">>) @@
    (Plate(<<"A", "B", "C", "D", "E", "F", "G", "H", "I", "9">>) :>
        <<"A", "B", "C", "D", "E", "F", "G", "H", "I", "9">>) @@
    (Plate(<<"A", "B", "C", "D", "E", "F", "G", "H", "I", "9", "0">>) :>
        <<"A", "B", "C", "D", "E", "F", "G", "H", "I", "9", "0">>) @@
    (Plate(<<"a">>) :> <<"A">>) @@
    (Plate(<<"A", "B">>) :> <<"A", "B">>) @@
    (Plate(<<"a", "\t", "b", "c">>) :> <<"A", "\t", "B", "C">>) @@
    (Plate(<<"A", "B", "_", "1">>) :> <<"A", "B", "_", "1">>) @@
    (Plate(<<" ", " ">>) :> <<>>) @@
    (Plate(<<>>) :> <<>>)

\* the characters A-Z, 0-9 and '-'
PlateAlphabet ==
    { "A", "B", "C", "D", "E", "F", "G", "H", "I", "J", "K", "L", "M", "N", "O", "P", "Q", "R",
      "S", "T", "U", "V", "W", "X", "Y", "Z", "0", "1", "2", "3", "4", "5", "6", "7", "8", "9",
      "-" }

\* the plate sanitize_plate is to return for a raw plate of PlateIn
ExpectedPlate(raw) ==
    IF raw \notin DOMAIN Cleaned THEN <<>>
    ELSE LET c == Cleaned[raw] IN
         IF Len(c) \in 3..10 /\ \A i \in 1..Len(c) : c[i] \in PlateAlphabet THEN c ELSE <<>>

\* C28: in every state and for every raw plate that is valid: if the plate
\* is not assigned, assign returns created = True and the index that a
\* lookup of the plate then returns; if it is assigned, release returns True
\* and a lookup of the plate afterwards returns None.
C28_AssignLookupRelease ==
    \A raw \in {x \in PlateIn : ExpectedPlate(x) # <<>>} :
        LET held == \E i \in 1..Len(lockerMap) : lockerMap[i].id = ExpectedPlate(raw)
            a    == assign(lockerMap, raw)
            la   == lookup(a.map, raw).ret
            r    == release(lockerMap, raw)
            lr   == lookup(r.map, raw).ret
        IN  /\ ~held => /\ ~a.ret.raised /\ a.ret.flag /\ a.ret.idx >= 0
                        /\ ~la.raised /\ la.flag /\ la.idx = a.ret.idx
            /\ held  => /\ ~r.ret.raised /\ r.ret.flag
                        /\ ~lr.raised /\ ~lr.flag /\ lr.idx = -1

\* ABC-123 was assigned and released while two other plates hold the
\* indices 1 and 2, and a lookup of " abc-123 " returned None
C28_Witness ==
    /\ ret.op = "lookup" /\ ret.raw = Plate(<<" ", "a", "b", "c", "-", "1", "2", "3", " ">>)
    /\ ~ret.raised /\ ~ret.flag /\ ret.idx = -1
    /\ {lockerMap[i].idx : i \in 1..Len(lockerMap)} = {1, 2}

\* C29: every call returns for its raw plate the stripped, space-free,
\* uppercased plate when that has 3 to 10 characters of A-Z, 0-9 and '-',
\* and the empty string otherwise (" abc-123 " gives "ABC-123", "a" gives
\* ""); sanitizing the result again returns the result.
C29_SanitizePlate ==
    /\ ret.op # "" =>
         /\ ret.plate = ExpectedPlate(ret.raw)
         /\ sanitize_plate(Plate(ret.plate)) = ret.plate
    /\ sanitize_plate(Plate(<<" ", "a", "b", "c", "-", "1", "2", "3", " ">>))
         = <<"A", "B", "C", "-", "1", "2", "3">>
    /\ sanitize_plate(Plate(<<"a">>)) = <<>>

\* a call was given tab, x, space, y, 9, newline and computed XY9
C29_Witness ==
    /\ ret.raw = Plate(<<"\t", "x", " ", "y", "9", "\n">>)
    /\ ret.plate = <<"X", "Y", "9">>
    /\ ~ret.raised

\* the outcomes of a urlopen that are neither a response read and decoded
\* nor an HTTP error status
Failures == {"badjson", "refused", "timeout"}

\* max(1, retries + 1)
ExpectedAttempts(retries) == IF retries >= 1 THEN retries + 1 ELSE 1

\* the call made at most ExpectedAttempts attempts, every attempt but the
\* last one failed, and the call ended the way its last attempt demands
RequestOutcome ==
    LET n == Len(call.log) IN
    /\ n <= ExpectedAttempts(call.retries)
    /\ \A i \in 1..(n - 1) : call.log[i] \in Failures
    /\ call.pc = "loop" => \A i \in 1..n : call.log[i] \in Failures
    /\ call.pc = "returned" =>
         /\ n >= 1 /\ call.log[n] \in {"json", "empty"}
         /\ call.result = (IF call.log[n] = "json" THEN "decoded" ELSE "{}")
    /\ call.pc = "raised" =>
         \/ /\ n >= 1 /\ call.log[n] = "http" /\ call.result = "OrchestratorError"
         \/ /\ n = ExpectedAttempts(call.retries) /\ call.log[n] \in Failures
            /\ call.result = "TransportError"

\* C30: a call of _request makes at most max(1, retries + 1) attempts; it
\* returns what the first successful attempt read, raises OrchestratorError
\* at the first HTTP error status, retries after any other failure and
\* raises TransportError when all attempts failed; every call that started
\* returns or raises.
C30_BoundedAttemptsTerminates ==
    /\ []RequestOutcome
    /\ (call.pc = "loop") ~> (call.pc \in {"returned", "raised"})

\* with retries = 2 three attempts failed and the call raised TransportError
C30_Witness ==
    /\ call.pc = "raised"
    /\ call.result = "TransportError"
    /\ call.retries = 2
    /\ call.log = <<"timeout", "refused", "badjson">>

\* C31: on every board drawn, a row is lit exactly when a mark of the
\* snapshot has that row and a column exactly when a mark has that column;
\* a line that one mark touches shows the color of that mark, on the board
\* and at every other time the snapshot is drawn.
C31_LineLitIffTouched ==
    board # NoBoard =>
      /\ \A r \in 0..2 :
            LET colors == RowColors(board.marks, r) IN
            /\ board.left[r] # None <=> \E i \in 1..Len(board.marks) : board.marks[i].row = r
            /\ Len(colors) = 1 =>
                 /\ board.left[r] = colors[1]
                 /\ \A ms \in ClockIn :
                      drawBoard([marks |-> board.marks, row_len |-> 3, col_len |-> 3], ms).left[r]
                        = colors[1]
      /\ \A c \in 0..2 :
            LET colors == ColColors(board.marks, c) IN
            /\ board.top[c] # None <=> \E i \in 1..Len(board.marks) : board.marks[i].col = c
            /\ Len(colors) = 1 =>
                 /\ board.top[c] = colors[1]
                 /\ \A ms \in ClockIn :
                      drawBoard([marks |-> board.marks, row_len |-> 3, col_len |-> 3], ms).top[c]
                        = colors[1]

\* two marks on row 0, in columns 0 and 1, and one mark at (1,1): row 0 and
\* column 1 rotate, column 0 and row 1 show their one mark, row 2 and
\* column 2 are dark
C31_Witness ==
    /\ board # NoBoard
    /\ Len(board.marks) = 3
    /\ RowColors(board.marks, 0) = <<"#ff0000", "#0000ff">>
    /\ RowColors(board.marks, 1) = <<"#00ff00">>
    /\ board.at = 1000
    /\ board.left = (0 :> "#0000ff") @@ (1 :> "#00ff00") @@ (2 :> None)
    /\ board.top = (0 :> "#ff0000") @@ (1 :> "#00ff00") @@ (2 :> None)

\* ids a delete is asked for: the ids the store can hold and one it never holds
DeleteIds == {"default", "r0c0", "r0c1", "zz"}

\* C32: in every state and for every id: a delete of an id the store holds
\* returns true and removes that mark alone, the other marks keeping their
\* data and order; a delete of an id the store does not hold returns false
\* and leaves marks and store timestamp unchanged.
C32_DeleteRemovesOnlyItsMark ==
    \A mid \in DeleteIds :
        LET S  == nodes[TheNode]
            S2 == del_mark(S, mid, now + 1)
        IN  IF \E i \in 1..Len(S.marks) : S.marks[i].id = mid
            THEN /\ del_mark_ok(S, mid)
                 /\ S2.marks = SelectSeq(S.marks, LAMBDA m : m.id # mid)
                 /\ Len(S2.marks) = Len(S.marks) - 1
            ELSE /\ ~del_mark_ok(S, mid)
                 /\ S2 = S

\* a mark was deleted at time 1 from a store stamped at time 0: the mark
\* left is the one installed then
C32_Witness ==
    /\ now = 1
    /\ nodes[TheNode].ts = 1
    /\ Len(nodes[TheNode].marks) = 1
    /\ nodes[TheNode].marks[1].id = "r0c1"
    /\ nodes[TheNode].marks[1].ts = 0

\* C33: in every state, a /api/led request with on false leaves the store
\* without any mark, whatever ids it held; a request with on true leaves
\* every mark other than 'default' as it was.
C33_LedOffClearsAll ==
    \A p \in LedIn :
        LET S  == nodes[TheNode]
            S2 == api_led(TheNode, S, p, now).state
        IN  /\ p.on = JBool(FALSE) => S2.marks = <<>>
            /\ p.on = JBool(TRUE) =>
                 SelectSeq(S2.marks, LAMBDA m : m.id # "default")
                   = SelectSeq(S.marks, LAMBDA m : m.id # "default")

\* C34: in every state and for every /api/trace request, with on true or
\* false, accepted or rejected: the marks with an id other than 'default'
\* are after the request what they were before, data and order alike.
C34_TraceTouchesOnlyDefault ==
    \A p \in TraceIn :
        LET S  == nodes[TheNode]
            S2 == api_trace(TheNode, S, p, now).state
        IN  SelectSeq(S2.marks, LAMBDA m : m.id # "default")
              = SelectSeq(S.marks, LAMBDA m : m.id # "default")

\* the store holds r0c0 and r0c1 from time 0 and, behind them, 'default'
\* set at time 1 at (0,1)
C34_Witness ==
    /\ Len(nodes[TheNode].marks) = 3
    /\ nodes[TheNode].marks[1].id = "r0c0" /\ nodes[TheNode].marks[1].ts = 0
    /\ nodes[TheNode].marks[2].id = "r0c1" /\ nodes[TheNode].marks[2].ts = 0
    /\ nodes[TheNode].marks[3] = [id |-> "default", row |-> 0, col |-> 1, color |-> "#ff0000", ts |-> 1]
    /\ resp.status = 200

\* C35: in every state, every request to a node that is answered with an
\* error status leaves the store as it was, marks and timestamp; checked at
\* a time later than the timestamp of the store.
C35_NodeErrorChangesNothing ==
    LET S == nodes[TheNode]
        t == now + 1
    IN  /\ \A p \in LedIn :
             LET o == api_led(TheNode, S, p, t) IN o.resp.status >= 400 => o.state = S
        /\ \A p \in TraceIn :
             LET o == api_trace(TheNode, S, p, t) IN o.resp.status >= 400 => o.state = S
        /\ \A p \in MarkIn :
             LET o == api_mark(TheNode, S, p, t) IN o.resp.status >= 400 => o.state = S
        /\ \A b \in BatchIn :
             LET o == api_marks(TheNode, S, b, t) IN o.resp.status >= 400 => o.state = S
        /\ api_led(TheNode, S, [color |-> JNull, on |-> JBool(TRUE)], t).resp.status = 400
        /\ api_trace(TheNode, S, [row |-> JInt(3), col |-> JInt(0), color |-> JStr("red"),
                                  on |-> JBool(TRUE)], t).resp.status = 400
        /\ api_mark(TheNode, S, [id |-> JNull, row |-> JNull, col |-> JInt(0),
                                 color |-> JStr("red"), on |-> JBool(FALSE)], t).resp.status = 400
        /\ api_marks(TheNode, S, [list |-> FALSE, items |-> <<>>], t).resp.status = 400

\* a request was answered 400 and the store holds the three marks it was
\* given at time 0
C35_Witness ==
    /\ resp.status = 400
    /\ now = 1
    /\ nodes[TheNode].ts = 0
    /\ Len(nodes[TheNode].marks) = 3

\* the desired marks of cabinet c in D, none when D has no entry for it
DesiredMarks(D, c) == IF c \in DOMAIN D THEN D[c] ELSE <<>>

\* the intents of IntentIn without a cabinet, without an integer row, or
\* with on true and without a color
LocallyRejectedIn ==
    {p \in IntentIn : \/ p.cabinet = JNull
                      \/ p.row = JNull
                      \/ (p.on = JBool(TRUE) /\ p.color = JNull)}

\* C36: in every state, an intent without cabinet, without integer row/col,
\* or with on true and without color is answered 400 when its cabinet, if
\* it names one, is registered; and every intent answered 400 leaves the
\* desired marks of every cabinet and every node as they were and is pushed
\* to no node, whatever the network would do.
C36_LocalRejectChangesNothing ==
    \A p \in IntentIn, net \in NetIn :
        LET r == orch_api_mark(CABINETS, DESIRED, nodes, p, net, now + 1) IN
        /\ (p \in LocallyRejectedIn /\ (p.cabinet = JNull \/ p.cabinet.s \in Keys(CABINETS)))
              => r.status = 400
        /\ r.status = 400 =>
              /\ \A c \in {"A", "B"} : DesiredMarks(r.desired, c) = DesiredMarks(DESIRED, c)
              /\ r.sent = ""
              /\ r.nodes = nodes

\* an intent was answered 400 while a mark is desired for A and held by
\* its node
C36_Witness ==
    /\ reply.status = 400
    /\ Keys(CABINETS) = {"A", "B"}
    /\ "A" \in DOMAIN DESIRED /\ Len(DESIRED["A"]) = 2
    /\ Len(nodes["u1"].marks) = 2

\* entries that resolve to one id in several ways: an explicit id with
\* blanks around it, the explicit id r0c1, and an absent and a blank id that
\* derive r0c1; the last entry derives r0c1 too and has no valid color
DupItems ==
    << Item(JStr(" default "), JInt(0), JInt(0), JStr("red")),
       Item(JStr("r0c1"), JInt(1), JInt(1), JStr("#0000FF")),
       Item(JAbsent, JInt(0), JInt(1), JStr("#0000FF")),
       Item(JStr("  "), JInt(0), JInt(1), JStr("red")),
       Item(JNull, JInt(0), JInt(1), JStr("nope")) >>

DupBatchIn ==
    {[list |-> TRUE, items |-> q] :
        q \in SeqsUpTo({DupItems[i] : i \in 1..Len(DupItems)}, MaxBatch)}

\* the id an entry is stored under: its explicit id without the blanks
\* around it, or r{row}c{col} when the id is absent, null or blank
ResolvedId(it) ==
    IF it.id.k = "str" /\ it.id.s \notin {"", "  "}
    THEN ((" default " :> "default") @@ ("r0c1" :> "r0c1"))[it.id.s]
    ELSE ExpectedDerived[<<it.row.i, it.col.i>>]

\* C37: in every state of a node, a full replace reports as count the
\* number of marks the store holds afterwards; for every valid entry of the
\* batch the store holds exactly one mark of the id the entry resolves to,
\* with the row, column and color of the last valid entry of that id, and
\* the store holds as many marks as the valid entries have distinct ids.
C37_CountIsStoreSizeLastEntryWins ==
    \A b \in DupBatchIn :
        LET o     == api_marks(TheNode, nodes[TheNode], b, now + 1)
            M     == o.state.marks
            valid == {j \in 1..Len(b.items) : ValidItem(TheNode, b.items[j])}
        IN  /\ o.resp.status = 200
            /\ o.resp.count = Len(M)
            /\ Len(M) = Cardinality({ResolvedId(b.items[j]) : j \in valid})
            /\ \A j \in valid :
                 LET k    == ResolvedId(b.items[j])
                     same == {l \in valid : ResolvedId(b.items[l]) = k}
                     last == CHOOSE l \in same : \A x \in same : x <= l
                     at   == {i \in 1..Len(M) : M[i].id = k}
                 IN  /\ Cardinality(at) = 1
                     /\ \A i \in at :
                          /\ M[i].row = b.items[last].row.i
                          /\ M[i].col = b.items[last].col.i
                          /\ M[i].color = ExpectedHex[b.items[last].color.s]

\* a batch was answered with count 1 and the store holds the single mark
\* r0c1 in red, the color of the second of the two entries of the model
\* that derive r0c1
C37_Witness ==
    /\ resp.status = 200
    /\ resp.count = 1
    /\ Shown(nodes[TheNode].marks) = <<[id |-> "r0c1", row |-> 0, col |-> 1, color |-> "#ff0000"]>>
    /\ nodes[TheNode].ts = now
    /\ now = 1

\* the ids of a sequence of marks, in its order
KeySeq(marks) == [i \in 1..Len(marks) |-> marks[i].id]

\* a sequence of ids without the id k
Without(keys, k) == SelectSeq(keys, LAMBDA x : x # k)

\* the intents for cabinet A that carry an integer row and column, and those
\* of them that turn a mark on with a color
OrderIn == {p \in ToA : p.row.k = "int" /\ p.col.k = "int"}

OrderOnIn == {p \in OrderIn : p.on = JBool(TRUE) /\ p.color.k = "str"}

\* the requests that set a mark at a node directly
NodeOnIn == {m \in MarkIn : m.on = JBool(TRUE)}

\* C38: in every state with cabinet A registered, (1) a node's state report
\* lists the marks in the order of its store, and a mark set at the node
\* keeps the position of its id when the id is there and goes to the end
\* when it is not; (2) an on-intent leaves the desired keys of A in their
\* order, with a new key at the end, an off-intent only takes its key out,
\* and an off-intent followed by an on-intent of the same key leaves that
\* key at the end; (3) after a push that reaches the node, the ids of the
\* node are the desired keys of A that the node holds, in the order of the
\* desired map, and all of them when every desired mark is valid.
C38_SnapshotOrderIsInsertionOrder ==
    "A" \in Keys(CABINETS) =>
    LET D == DesiredMarks(DESIRED, "A")
        u == PushUrl(CABINETS, "A")
        S == nodes[u]
    IN  /\ KeySeq(to_dict(u, S).marks) = KeySeq(S.marks)
        /\ \A m \in NodeOnIn :
              LET o == api_mark(u, S, m, now + 1) IN
              o.resp.status = 200 =>
                 KeySeq(o.state.marks) =
                    IF ExpectedKey(m) \in Keys(S.marks) THEN KeySeq(S.marks)
                    ELSE Append(KeySeq(S.marks), ExpectedKey(m))
        /\ \A p \in OrderIn, net \in {"ok", "noreply"} :
              LET r  == orch_api_mark(CABINETS, DESIRED, nodes, p, net, now + 1)
                  k  == ExpectedKey(p)
                  d2 == KeySeq(DesiredMarks(r.desired, "A"))
                  n2 == r.nodes[u].marks
              IN  /\ p \in OrderOnIn =>
                        d2 = IF k \in Keys(D) THEN KeySeq(D) ELSE Append(KeySeq(D), k)
                  /\ p.on = JBool(FALSE) => d2 = Without(KeySeq(D), k)
                  /\ r.sent # "" =>
                        /\ r.sent = u
                        /\ KeySeq(n2) = SelectSeq(d2, LAMBDA x : x \in Keys(n2))
                        /\ Cardinality(ValidDesired(u, r.desired["A"])) = Len(d2)
                              => KeySeq(n2) = d2
        /\ \A p1 \in OrderIn, p2 \in OrderOnIn :
              (p1.on = JBool(FALSE) /\ ExpectedKey(p1) = ExpectedKey(p2)) =>
              LET r1 == orch_api_mark(CABINETS, DESIRED, nodes, p1, "ok", now + 1)
                  r2 == orch_api_mark(CABINETS, r1.desired, r1.nodes, p2, "ok", now + 1)
                  k  == ExpectedKey(p2)
              IN  /\ KeySeq(r2.desired["A"]) = Append(Without(KeySeq(D), k), k)
                  /\ Cardinality(ValidDesired(u, r2.desired["A"])) = Len(r2.desired["A"])
                        => KeySeq(r2.nodes[u].marks) = Append(Without(KeySeq(D), k), k)

\* the desired map of A holds m1 before r0c0, the node of A holds the two
\* marks in that order and r0c0 in blue: r0c0 was set after m1, or removed
\* and set again
C38_Witness ==
    /\ "A" \in Keys(CABINETS) /\ "A" \in DOMAIN DESIRED
    /\ reply.status = 200
    /\ KeySeq(DESIRED["A"]) = <<"m1", "r0c0">>
    /\ Shown(nodes[PushUrl(CABINETS, "A")].marks) =
          << [id |-> "m1", row |-> 0, col |-> 0, color |-> "#0000ff"],
             [id |-> "r0c0", row |-> 0, col |-> 0, color |-> "#0000ff"] >>

\* the indices in use in a map of the assigner
UsedIdx(M) == {M[i].idx : i \in 1..Len(M)}

\* the raw plates of PlateIn that are valid, and those that are not
ValidPlateIn == {x \in PlateIn : ExpectedPlate(x) # <<>>}

InvalidPlateIn == PlateIn \ ValidPlateIn

\* C39: in every state of a LockerAssigner, two assigned plates hold two
\* indices and every index is non-negative; assign of a valid plate that is
\* not assigned returns created = True with the smallest index not in use
\* and adds only that plate, also right after a release, whose index it may
\* take again; assign of an assigned plate returns its index with created =
\* False and leaves the map alone; assign, lookup and release of an invalid
\* plate raise and leave the map alone.
C39_DistinctSmallestFreeIndex ==
    /\ \A i, j \in 1..Len(lockerMap) :
          i # j => lockerMap[i].id # lockerMap[j].id /\ lockerMap[i].idx # lockerMap[j].idx
    /\ \A i \in 1..Len(lockerMap) : lockerMap[i].idx >= 0
    /\ \A raw \in ValidPlateIn :
          LET p    == ExpectedPlate(raw)
              held == {i \in 1..Len(lockerMap) : lockerMap[i].id = p}
              a    == assign(lockerMap, raw)
          IN  /\ held = {} =>
                    /\ ~a.ret.raised /\ a.ret.flag
                    /\ a.ret.idx \notin UsedIdx(lockerMap)
                    /\ \A k \in 0..(a.ret.idx - 1) : k \in UsedIdx(lockerMap)
                    /\ a.map = Append(lockerMap, [id |-> p, idx |-> a.ret.idx])
              /\ \A i \in held :
                    /\ ~a.ret.raised /\ ~a.ret.flag
                    /\ a.ret.idx = lockerMap[i].idx
                    /\ a.map = lockerMap
              /\ \A i \in held : \A other \in ValidPlateIn :
                    LET r == release(lockerMap, raw)
                        b == assign(r.map, other)
                    IN  ExpectedPlate(other) \notin Keys(r.map) =>
                          /\ b.ret.flag
                          /\ b.ret.idx <= lockerMap[i].idx
                          /\ b.ret.idx \notin UsedIdx(r.map)
                          /\ \A k \in 0..(b.ret.idx - 1) : k \in UsedIdx(r.map)
    /\ \A raw \in InvalidPlateIn :
          /\ assign(lockerMap, raw).ret.raised  /\ assign(lockerMap, raw).map = lockerMap
          /\ lookup(lockerMap, raw).ret.raised  /\ lookup(lockerMap, raw).map = lockerMap
          /\ release(lockerMap, raw).ret.raised /\ release(lockerMap, raw).map = lockerMap

\* three plates are assigned and the one assigned last holds index 0, which
\* an earlier plate had held and released
C39_Witness ==
    /\ ret.op = "assign" /\ ~ret.raised /\ ret.flag /\ ret.idx = 0
    /\ Len(lockerMap) = 3
    /\ lockerMap[3].idx = 0
    /\ UsedIdx(lockerMap) = {0, 1, 2}

====
